---- MODULE Spec2Model ----
(***************************************************************************)
(* Model of the collie scraping engine: ScrapeStatus::merge (progress.rs), *)
(* BackoffState (backoff.rs), the per-item tracks scrape_game_metadata and *)
(* scrape_game_guides (scraping.rs), the persistence helpers (storage.rs)  *)
(* and the session loop scrape (lib.rs).                                   *)
(***************************************************************************)
EXTENDS Integers, Sequences, FiniteSets, TLC

VARIABLES
    \* ---- ScrapeStatus::merge applied to drawn inputs ----
    ma, mb, mc,        \* three statuses drawn at Init
    mab,               \* ma.merge(mb) once computed, NoStatus before
    mabc,              \* ma.merge(mb).merge(mc) once computed, NoStatus before
    \* ---- BackoffState ----
    backoff,           \* BackoffState.scrapers: scraper name -> ExponentialBackoff
    waits,             \* per scraper: seconds slept by each apply_backoff since its last reset
    \* ---- scrape(): arguments and environment ----
    pc,                \* position in scrape() and the track functions
    run,               \* number of scrape() calls started
    config,            \* this call's scrapers and ScrapingConfig.skip_cache
    n_roms,            \* rom_files.len(): what scan_directory returns
    replay,            \* TRUE when the scrapers answer a repeated request as they did before
    memo,              \* the scrapers' answers so far, per request (kept when replay)
    before_run,        \* the directory and the statuses as this scrape() call found them
    cancel_token,      \* cancel_token.is_cancelled()
    cancel_at,         \* where scrape() was when cancellation was requested ("" if never)
    \* ---- the ROM directory ----
    io_faults,         \* number of filesystem operations that have failed so far
    image_exists,      \* per rom: <console>/Imgs/<name>.png exists
    guides_files,      \* per rom: the files in <console>/Guides/<name>/
    games,             \* per rom: .collie/games/<console>_<name>.json
    games_txt,         \* .collie/games.txt, one line per append
    crawled,           \* .collie/crawled, one line per append
    markers,           \* the marker files under .collie/cache
    last_op,           \* history: per cache key, the last operation on it ("none" if never)
    results_file,      \* .collie/cache/results.json
    progress_file,     \* .collie/cache/progress.json
    added,             \* history: the results given to add_result, newest first
    cache_dir,         \* .collie/cache exists
    cache_op,          \* history: the ScrapeCache method called last ("" if none)
    cache_ret,         \* history: what it returned: "unit", "Ok" or "Err"
    cache_fault,       \* history: a filesystem call of that method failed
    \* ---- server/api/scrape.rs: the receiving end of the progress channel ----
    subscriber,        \* "connected", "slow" (updates pile up unread) or "disconnected"
    \* ---- server/state.rs: AppState, and the tasks of server/api/scrape.rs ----
    scraping,          \* AppState::scraping, the flag under its mutex
    state_cancel_token,\* AppState::cancel_token: None or Some(token of a start request)
    roms_path,         \* AppState::roms_path
    scraping_state,    \* AppState::scraping_state: the progress snapshot
    handler,           \* per start request: the position of its start_scraping handler
    task,              \* per start request: the position of the task it spawned
    token_cancelled,   \* the start requests on whose CancellationToken cancel() was called
    run_result,        \* per start request: what run_scraping returned ("none" before)
    progress_rx,       \* per start request: the channel of its run (queue, sent, closed)
    state_lock,        \* the request whose handler holds the guard of AppState::scraping_state
    state_file,        \* .collie/state.json: None or Some(ScrapingState)
    stop,              \* per stop request: the position of its stop_scraping handler
    reader,            \* per get_state / save_settings request: kind, position, loaded state
    \* ---- scrape(): locals ----
    rom,               \* index of the rom being processed (0 before the first)
    game_data,         \* the GameData of the rom being processed
    progress,          \* ScrapingProgress
    cancelled,
    result,            \* what scrape() returned
    \* ---- scrape_game_metadata / scrape_game_guides: locals ----
    scraper_idx,       \* position of the for loop over the scrapers
    all_not_found,
    tried_any,
    guide_paths,       \* number of guide paths the search returned
    guide_idx,         \* position of the for loop over guide_paths
    \* ---- the progress channel ----
    last_update,       \* the ProgressUpdate sent last
    \* ---- history (not program state) ----
    calls,             \* provider calls made for the current rom, in order
    search_ok,         \* metadata scrapers whose search returned Ok for the current rom
    rate_limited,      \* scrapers with a rate-limit signal since their last successful search
    last_call,         \* the provider request that returned last
    statuses           \* per rom: the status folded into the counters in this run

mergeVars == <<ma, mb, mc, mab, mabc>>
backoffVars == <<backoff, waits>>
envVars == <<run, config, n_roms, replay, before_run, cancel_at>>
appVars == <<scraping, state_cancel_token, roms_path, scraping_state, handler, task>>
apiVars == <<token_cancelled, run_result, progress_rx, state_lock, state_file, stop, reader>>
serverVars == <<subscriber, appVars, apiVars>>
storeVars == <<markers, last_op, results_file, progress_file, added, cache_dir, cache_op,
              cache_ret, cache_fault>>
cacheVars == <<storeVars, serverVars>>
markerVars == <<markers, last_op>>
idleVars == <<ma, mb, mc, mab, mabc, memo, cacheVars>>
diskVars == <<io_faults, image_exists, guides_files, games, games_txt, crawled>>
loopVars == <<rom, progress, cancelled, result, statuses>>
trackVars == <<scraper_idx, all_not_found, tried_any, guide_paths, guide_idx>>
histVars == <<calls, search_ok, rate_limited, last_call>>
coreVars == <<pc, run, config, n_roms, replay, memo, before_run, cancel_token, cancel_at,
             io_faults,
             image_exists, guides_files, games, games_txt, crawled, rom, game_data, progress, cancelled, result,
             scraper_idx, all_not_found, tried_any, guide_paths, guide_idx,
             last_update, calls, search_ok, rate_limited, last_call, statuses>>
runVars == <<coreVars, serverVars>>
vars == <<ma, mb, mc, mab, mabc, backoff, waits, pc, run, config, n_roms, replay, memo,
          before_run, cancel_token, cancel_at,
          io_faults, image_exists, guides_files, games, games_txt, crawled, rom, game_data,
          progress, cancelled, result, scraper_idx, all_not_found, tried_any,
          guide_paths, guide_idx, last_update, calls, search_ok, rate_limited,
          last_call, statuses, markers, last_op, results_file, progress_file, added,
          cache_dir, cache_op, cache_ret, cache_fault, subscriber, scraping,
          state_cancel_token, roms_path, scraping_state, handler, task,
          token_cancelled, run_result, progress_rx, state_lock, state_file, stop, reader>>

----------------------------------------------------------------------------
(* Bounds *)

\* Most cache keys a behaviour operates on.
MaxCacheKeys == 3

\* Most add_result calls in a behaviour.
MaxAdds == 12

\* Most rom files a scan returns.
MaxRoms == 2
\* Rom files of the end-to-end scenario.
E2ERoms == 3
\* Most metadata scrapers and guides scrapers passed to scrape().
MaxMeta == 2
MaxGuides == 1
\* Most guides scrapers in the scenario of the guides track.
MaxGuideScrapers == 2
\* Most guide paths one guides search returns.
MaxGuidePaths == 2
\* Number of scrape() calls over the same directory.
MaxRuns == 2
\* Most filesystem operations (directory creation, file writes) that fail in one behaviour.
MaxIoFaults == 1
\* Longest run of apply_backoff calls without a reset in the BackoffState driver.
MaxBackoffCalls == 11
\* Start requests the server receives in a behaviour.
MaxRequests == 3
\* Most 'Processing' updates a run publishes before its final summary.
MaxRelayed == 2
\* Stop requests the server receives in a behaviour.
MaxStops == 1
\* get_state and save_settings requests the server receives in a behaviour.
MaxReaders == 2
\* Start requests whose relay task is followed against get_state and save_settings.
MaxRelayRuns == 1
\* Start requests received next to stop, get_state and save_settings requests.
MaxApiRuns == 2

\* MetadataScraper::name / GuidesScraper::name of the scrapers, in configured order.
MetaName(j) == <<"ScreenScraper", "TheGamesDB", "Metadata3", "Metadata4">>[j]
GuideName(j) == <<"GameFAQs", "Guides2", "Guides3">>[j]
ScraperNames == {MetaName(j) : j \in 1..MaxMeta} \cup {GuideName(j) : j \in 1..MaxGuides}
                   \cup {GuideName(j) : j \in 1..MaxGuideScrapers}
\* Scraper names the BackoffState driver uses.
BackoffNames == {MetaName(1), GuideName(1)}
Requests == 1..MaxRequests
StopRequests == 1..MaxStops
Readers == 1..MaxReaders
Roms == 1..(IF MaxRoms >= E2ERoms THEN MaxRoms ELSE E2ERoms)

----------------------------------------------------------------------------
(* progress.rs: ScrapeStatus *)

ScrapeStatus == {"Pending", "Searching", "Success", "Failed", "Skipped"}

NoStatus == "none"

\* A plausible slip: the Searching and Pending arms swapped.
merge_pending_first(self, other) ==
    IF self = "Success" \/ other = "Success" THEN "Success"
    ELSE IF self = "Failed" \/ other = "Failed" THEN "Failed"
    ELSE IF self = "Pending" \/ other = "Pending" THEN "Pending"
    ELSE IF self = "Searching" \/ other = "Searching" THEN "Searching"
    ELSE "Skipped"

\* A plausible slip: the Failed arm tested on self before Success is tested on other.
merge_left_biased(self, other) ==
    IF self = "Success" THEN "Success"
    ELSE IF self = "Failed" THEN "Failed"
    ELSE IF other = "Success" THEN "Success"
    ELSE IF other = "Failed" THEN "Failed"
    ELSE IF self = "Searching" \/ other = "Searching" THEN "Searching"
    ELSE IF self = "Pending" \/ other = "Pending" THEN "Pending"
    ELSE "Skipped"

\* ScrapeStatus::merge: the match arms in source order, first match wins.
merge(self, other) ==
    IF self = "Success" \/ other = "Success" THEN "Success"
    ELSE IF self = "Failed" \/ other = "Failed" THEN "Failed"
    ELSE IF self = "Searching" \/ other = "Searching" THEN "Searching"
    ELSE IF self = "Pending" \/ other = "Pending" THEN "Pending"
    ELSE "Skipped"

----------------------------------------------------------------------------
(* backoff.rs: BackoffState over the backoff crate's ExponentialBackoff.    *)
(* Durations are whole seconds; randomization_factor is 0.0, so the         *)
(* randomized interval is the current interval (plus less than 1 ns, which  *)
(* as_secs() drops).                                                        *)

initial_interval == 1
multiplier == 2
max_interval == 300
NoLimit == -1
\* max_elapsed_time: None ("Never give up")
max_elapsed_time == NoLimit

\* The entry or_insert_with creates.
NewBackoff == [current_interval |-> initial_interval, elapsed |-> 0]

\* ExponentialBackoff::increment_current_interval
increment_current_interval(current) ==
    IF current * multiplier >= max_interval THEN max_interval
    ELSE current * multiplier

\* The deadline test of ExponentialBackoff::next_backoff: TRUE when it yields Some(duration).
next_backoff_some(b, limit) ==
    IF limit = NoLimit THEN TRUE
    ELSE b.elapsed <= limit /\ b.elapsed + b.current_interval <= limit

\* BackoffState::get_backoff: entry(name).or_insert_with(..)
get_backoff(scrapers, name) ==
    IF name \in DOMAIN scrapers THEN scrapers[name] ELSE NewBackoff

\* Seconds apply_backoff sleeps for name; 0 when next_backoff gives None (no sleep at all).
backoff_secs(scrapers, name) ==
    LET b == get_backoff(scrapers, name)
    IN IF next_backoff_some(b, max_elapsed_time) THEN b.current_interval ELSE 0

\* The scrapers map after apply_backoff(name) has slept.
apply_backoff(scrapers, name) ==
    LET b == get_backoff(scrapers, name)
        slept == backoff_secs(scrapers, name)
        nb == [current_interval |-> increment_current_interval(b.current_interval),
               elapsed |-> b.elapsed + slept]
    IN [n \in (DOMAIN scrapers) \cup {name} |-> IF n = name THEN nb ELSE scrapers[n]]

\* A plausible slip: reset clears the whole map (scrapers.clear()).
reset_all(scrapers, name) == [n \in {} |-> scrapers[n]]

\* A plausible slip: reset leaves the entry in place.
reset_noop(scrapers, name) == scrapers

\* BackoffState::reset: scrapers.remove(name)
reset(scrapers, name) ==
    [n \in (DOMAIN scrapers) \ {name} |-> scrapers[n]]

\* BackoffState::new
EmptyScrapers == [n \in {} |-> NewBackoff]

----------------------------------------------------------------------------
(* progress.rs: GameData, ScrapingProgress, ProgressUpdate, send_progress *)

\* Option<T>
None == <<>>
Some(x) == <<x>>

\* The GameData scrape() creates for a rom before running its tracks.
NewGameData(r) ==
    [rom_name |-> r,
     metadata |-> [status |-> "Pending", name |-> None, developer |-> None,
                   publisher |-> None, genre |-> None, release_date |-> None,
                   rating |-> None, image_path |-> None, error_message |-> None],
     guides |-> [status |-> "Pending", count |-> None]]

\* A plausible slip: the counters of the previous call are carried over.
NewProgress_carried(total) ==
    IF run = 0
    THEN [total |-> total, completed |-> 0, current_rom |-> None,
          success_count |-> 0, fail_count |-> 0, skip_count |-> 0]
    ELSE [progress EXCEPT !.total = total, !.completed = 0, !.current_rom = None]

\* The ScrapingProgress scrape() starts with.
NewProgress(total) ==
    [total |-> total, completed |-> 0, current_rom |-> None,
     success_count |-> 0, fail_count |-> 0, skip_count |-> 0]

\* A plausible slip: the update is built from the counters as they were before
\* the caller's last change to them.
send_progress_stale(p, message, game_update) ==
    [total |-> progress.total, completed |-> progress.completed,
     current_rom |-> progress.current_rom,
     success_count |-> progress.success_count, fail_count |-> progress.fail_count,
     skip_count |-> progress.skip_count, message |-> message, game_update |-> game_update]

\* The ProgressUpdate send_progress puts on the channel (the send never blocks: the
\* channel is unbounded and a closed channel's error is dropped).
send_progress(p, message, game_update) ==
    [total |-> p.total, completed |-> p.completed, current_rom |-> p.current_rom,
     success_count |-> p.success_count, fail_count |-> p.fail_count,
     skip_count |-> p.skip_count, message |-> message, game_update |-> game_update]

NoUpdate == send_progress(NewProgress(0), "", None)

----------------------------------------------------------------------------
(* scraper/mod.rs: what a scraper can answer *)

\* ScraperError
ScraperError == {"Network", "AuthenticationFailed", "GameNotFound", "RateLimitExceeded",
                 "ParseError", "PlatformNotSupported", "Io"}

\* The three ways the tracks treat an error: the game is not there, the scraper
\* asks to slow down, anything else.
ErrorCases == {"GameNotFound", "RateLimitExceeded", "Network"}

\* search_game: Ok(GameMetadata) with or without image_url, or an error.
SearchOutcome == {"found_image", "found_no_image"} \cup ScraperError

\* search_game_guides: Ok(non-empty list), Ok(empty list), or an error.
GuidesOutcome == {"guides", "no_guides"} \cup ScraperError

\* download_image: Ok, an error before the file is created, or an error after
\* tokio::fs::write created the file.
DownloadOutcome == {"ok", "err", "err_file_left"}

\* The GameMetadata scraper j answers for rom r. rating is an f32 given in eighths
\* (exactly representable); scrapers from the second on leave some fields None.
SearchResult(j, r) ==
    [name |-> 10 * j + r,
     developer |-> Some(100 + j),
     publisher |-> IF j = 1 THEN Some(200 + j) ELSE None,
     genre |-> Some(300 + j),
     release_date |-> IF j = 1 THEN Some(400 + j) ELSE None,
     rating |-> IF j = 2 THEN None ELSE Some(31 + 2 * j)]

\* format!("{:.1}", r): the rating in tenths, rounded to nearest, ties to even.
format_rating(eighths) ==
    LET thousandths == 125 * eighths
        q == thousandths \div 100
        rem == thousandths % 100
    IN IF rem > 50 \/ (rem = 50 /\ q % 2 = 1) THEN q + 1 ELSE q

----------------------------------------------------------------------------
(* storage.rs: the per-rom record. Distinct roms have distinct                  *)
(* <console>_<name_no_extension>.json file names, so the record is keyed by rom. *)

\* A plausible slip: the record of another rom is loaded.
load_game_data_other(g, r) == g[(r % MaxRoms) + 1]

\* load_game_data: None when the file is missing or does not parse.
load_game_data(g, r) == g[r]

\* save_game_data outcomes: written; failed before the file was touched; failed
\* after std::fs::write truncated it (the file no longer parses).
SaveOutcome == {"ok", "err", "err_truncated"}

save_game_data(g, r, gd, outcome) ==
    CASE outcome = "ok" -> [g EXCEPT ![r] = Some(gd)]
      [] outcome = "err" -> g
      [] outcome = "err_truncated" -> [g EXCEPT ![r] = None]

\* append_scraped_index / append_crawled_path: one line appended, or nothing on error.
\* A plausible slip: the line is written at the head of the file.
append_line_front(file, line, ok) == IF ok THEN <<line>> \o file ELSE file

append_line(file, line, ok) == IF ok THEN Append(file, line) ELSE file

----------------------------------------------------------------------------
(* cache.rs: ScrapeCache *)

MAX_CACHED_RESULTS == 10

\* A name is a sequence of characters. The characters get_cache_file_path replaces.
ReservedChars == {"/", "\\", ":", "*", "?", "\"", "<", ">", "|"}

\* str::replace([...], "_") as get_cache_file_path applies it to console and rom_name.
sanitize(name) == [i \in 1..Len(name) |-> IF name[i] \in ReservedChars THEN "_" ELSE name[i]]

metadata_dir == "metadata_not_found"
guides_dir == "guides_not_found"

\* A plausible slip: the marker is not put under the directory of its console.
get_cache_file_path_flat(base_dir, console, rom_name) ==
    <<base_dir, <<>>, sanitize(rom_name) \o <<".marker">>>>

\* base_dir.join(console_safe).join(format!("{}.marker", rom_safe))
get_cache_file_path(base_dir, console, rom_name) ==
    <<base_dir, sanitize(console), sanitize(rom_name) \o <<".marker">>>>

\* path.exists()
has_metadata_failed(files, console, rom_name) ==
    get_cache_file_path(metadata_dir, console, rom_name) \in files

\* A plausible slip: the guides markers are looked up under the metadata directory.
has_guides_failed_metadata_dir(files, console, rom_name) ==
    get_cache_file_path(metadata_dir, console, rom_name) \in files

has_guides_failed(files, console, rom_name) ==
    get_cache_file_path(guides_dir, console, rom_name) \in files

\* The consoles and rom names the cache is driven with: a rom name may hold any
\* character a file name can.
CacheConsoles == {<<"N", "E", "S">>, <<"S", "N", "E", "S">>}
CacheRoms == {<<"a", ":", "b">>, <<"a", "_", "b">>, <<"Z">>}
CacheKeys == {metadata_dir, guides_dir} \X CacheConsoles \X CacheRoms

\* A file of the cache directory: whether it exists, whether its content parses
\* as JSON of the expected type, and the content when it does.
NoFile == [exists |-> FALSE, parses |-> FALSE, content |-> <<>>]
FileWith(content) == [exists |-> TRUE, parses |-> TRUE, content |-> content]

\* After ScrapeCache::init on a new directory: the cache directory exists, no
\* marker file exists and no operation was made; no progress.json, no results.json.
\* state.rs: ScrapingState::default(); the counters and the message of an
\* update are copied together, progress stands for the counters.
DefaultState == [scraping |-> FALSE, progress |-> 0, current_message |-> ""]

\* An unbounded mpsc channel nothing was sent on, both ends alive.
EmptyChannel == [queue |-> <<>>, sent |-> 0, closed |-> FALSE]

\* A get_state / save_settings request that has not arrived.
NoReader == [kind |-> "", pc |-> "none", loaded |-> DefaultState]

CacheIdle ==
    /\ markers = {}
    /\ last_op = [k \in CacheKeys |-> "none"]
    /\ results_file = NoFile
    /\ progress_file = NoFile
    /\ added = <<>>
    /\ cache_dir = TRUE
    /\ cache_op = ""
    /\ cache_ret = ""
    /\ cache_fault = FALSE
    /\ subscriber = "connected"
    /\ scraping = FALSE
    /\ state_cancel_token = <<>>
    /\ roms_path = 0
    /\ scraping_state = DefaultState
    /\ handler = [i \in Requests |-> "none"]
    /\ task = [i \in Requests |-> "none"]
    /\ token_cancelled = {}
    /\ run_result = [i \in Requests |-> "none"]
    /\ progress_rx = [i \in Requests |-> EmptyChannel]
    /\ state_lock = None
    /\ state_file = None
    /\ stop = [s \in StopRequests |-> "none"]
    /\ reader = [g \in Readers |-> NoReader]

\* The keys operated on so far, with one more.
Touched(key) == {k \in CacheKeys : last_op[k] # "none"} \cup {key}

\* mark_metadata_not_found / mark_guides_not_found: create_dir_all, then write(path, "").
MarkNotFound(base_dir, console, rom_name) ==
    /\ Cardinality(Touched(<<base_dir, console, rom_name>>)) <= MaxCacheKeys
    /\ markers' = markers \cup {get_cache_file_path(base_dir, console, rom_name)}
    /\ last_op' = [last_op EXCEPT ![<<base_dir, console, rom_name>>] = "mark"]
    /\ cache_dir' = TRUE
    /\ cache_op' = "mark_not_found"
    /\ cache_ret' = "unit"
    /\ cache_fault' = FALSE
    /\ UNCHANGED <<mergeVars, backoffVars, runVars, results_file, progress_file, added>>

\* clear_metadata_failed / clear_guides_failed: remove_file(path), its error dropped.
ClearFailed(base_dir, console, rom_name) ==
    /\ Cardinality(Touched(<<base_dir, console, rom_name>>)) <= MaxCacheKeys
    /\ markers' = markers \ {get_cache_file_path(base_dir, console, rom_name)}
    /\ last_op' = [last_op EXCEPT ![<<base_dir, console, rom_name>>] = "clear"]
    /\ cache_op' = "clear_failed"
    /\ cache_ret' = "unit"
    /\ cache_fault' = FALSE
    /\ UNCHANGED <<mergeVars, backoffVars, runVars, results_file, progress_file, added,
                   cache_dir>>

\* The GameResults add_result is called with: a rom and the statuses it ended with.
CacheResults == {1, 2}

\* load_results: an empty Vec when the file is missing, unreadable or unparsable.
load_results(file) == IF file.exists /\ file.parses THEN file.content ELSE <<>>

\* Vec::truncate(len)
truncate(v, len) == IF Len(v) <= len THEN v ELSE SubSeq(v, 1, len)

\* A plausible slip: the new result is pushed at the end of the list.
add_result_pushed(file, game_result) ==
    FileWith(truncate(Append(load_results(file), game_result), MAX_CACHED_RESULTS))

\* The results.json add_result writes: the new result first, then the stored
\* ones, cut to MAX_CACHED_RESULTS.
add_result(file, game_result) ==
    FileWith(truncate(<<game_result>> \o load_results(file), MAX_CACHED_RESULTS))

\* ScrapeCache::add_result, the write succeeding (the cache directory is there).
AddResult(game_result) ==
    /\ Len(added) < MaxAdds
    /\ cache_dir
    /\ results_file' = add_result(results_file, game_result)
    /\ added' = <<game_result>> \o added
    /\ cache_op' = "add_result"
    /\ cache_ret' = "Ok"
    /\ cache_fault' = FALSE
    /\ UNCHANGED <<mergeVars, backoffVars, runVars, markerVars, progress_file, cache_dir>>

\* The ScrapeProgress values save_progress is called with.
CacheProgress == {1, 2}

\* load_progress: None when the file is missing, unreadable or unparsable.
load_progress(file) == IF file.exists /\ file.parses THEN Some(file.content) ELSE None

\* ScrapeCache::save_progress, the write succeeding (the cache directory is there).
SaveProgress(p) ==
    /\ cache_dir
    /\ progress_file' = FileWith(p)
    /\ cache_op' = "save_progress"
    /\ cache_ret' = "Ok"
    /\ cache_fault' = FALSE
    /\ UNCHANGED <<mergeVars, backoffVars, runVars, markerVars, results_file, added, cache_dir>>

\* A file whose write failed after the file was created or truncated.
Unparsable == [exists |-> TRUE, parses |-> FALSE, content |-> <<>>]

\* How std::fs::write fails: before the file is touched, or after it was truncated.
WriteFailure == {"err", "err_truncated"}

\* The file after a failed std::fs::write.
failed_write(file, outcome) == IF outcome = "err_truncated" THEN Unparsable ELSE file

\* mark_metadata_not_found / mark_guides_not_found when write(path, "") fails
\* (create_dir_all may have succeeded): both errors are dropped with `let _ =`.
MarkNotFoundFails(base_dir, console, rom_name) ==
    /\ cache_dir' \in {cache_dir, TRUE}
    /\ cache_op' = "mark_not_found"
    /\ cache_ret' = "unit"
    /\ cache_fault' = TRUE
    /\ UNCHANGED <<mergeVars, backoffVars, runVars, markerVars, results_file, progress_file,
                   added>>

\* clear_metadata_failed / clear_guides_failed when remove_file fails on an
\* existing marker: the error is dropped with `let _ =`.
ClearFailedFails(base_dir, console, rom_name) ==
    /\ get_cache_file_path(base_dir, console, rom_name) \in markers
    /\ cache_op' = "clear_failed"
    /\ cache_ret' = "unit"
    /\ cache_fault' = TRUE
    /\ UNCHANGED <<mergeVars, backoffVars, runVars, markerVars, results_file, progress_file,
                   added, cache_dir>>

\* add_result when std::fs::write fails: `?` returns the error to the caller.
AddResultFails(game_result, outcome) ==
    /\ Len(added) < MaxAdds
    /\ outcome = "err_truncated" => cache_dir
    /\ results_file' = failed_write(results_file, outcome)
    /\ cache_op' = "add_result"
    /\ cache_ret' = "Err"
    /\ cache_fault' = TRUE
    /\ UNCHANGED <<mergeVars, backoffVars, runVars, markerVars, progress_file, added, cache_dir>>

\* save_progress when std::fs::write fails: `?` returns the error to the caller.
SaveProgressFails(p, outcome) ==
    /\ outcome = "err_truncated" => cache_dir
    /\ progress_file' = failed_write(progress_file, outcome)
    /\ cache_op' = "save_progress"
    /\ cache_ret' = "Err"
    /\ cache_fault' = TRUE
    /\ UNCHANGED <<mergeVars, backoffVars, runVars, markerVars, results_file, added, cache_dir>>

\* A plausible slip: the session is cleared by removing the cache directory's content.
markers_after_clear_session_none(files) == {}

\* What clear_session_cache leaves of the marker files: it removes progress.json
\* and results.json and nothing else.
markers_after_clear_session(files) == files

\* ScrapeCache::clear_session_cache, both removals succeeding or finding no file.
ClearSessionCache ==
    /\ progress_file' = NoFile
    /\ results_file' = NoFile
    /\ markers' = markers_after_clear_session(markers)
    /\ cache_op' = "clear_session_cache"
    /\ cache_ret' = "Ok"
    /\ cache_fault' = FALSE
    /\ UNCHANGED <<mergeVars, backoffVars, runVars, last_op, added, cache_dir>>

\* ScrapeCache::clear_all, remove_dir_all succeeding: the cache directory is gone.
ClearAll ==
    /\ markers' = {}
    /\ last_op' = [k \in CacheKeys |-> "none"]
    /\ progress_file' = NoFile
    /\ results_file' = NoFile
    /\ cache_dir' = FALSE
    /\ cache_op' = "clear_all"
    /\ cache_ret' = "Ok"
    /\ cache_fault' = FALSE
    /\ UNCHANGED <<mergeVars, backoffVars, runVars, added>>

\* ScrapeCache::init: create_dir_all of the two marker directories.
CacheInitDirs ==
    /\ ~cache_dir
    /\ cache_dir' = TRUE
    /\ cache_op' = "init"
    /\ cache_ret' = "Ok"
    /\ cache_fault' = FALSE
    /\ UNCHANGED <<mergeVars, backoffVars, runVars, markerVars, results_file, progress_file,
                   added>>


----------------------------------------------------------------------------
(* lib.rs: scrape() *)

NoCall == [name |-> "", idx |-> 0, kind |-> "", answer |-> "", ok |-> FALSE]

\* ScrapeStatus::merge is not being driven.
MergeIdle ==
    /\ ma = "Pending" /\ mb = "Pending" /\ mc = "Pending"
    /\ mab = NoStatus /\ mabc = NoStatus

NoMemo == [q \in {} |-> <<"", 0>>]

\* Nothing has been scraped yet: no image, no guide, no record, empty logs.
FreshDirectory ==
    /\ image_exists = [r \in Roms |-> FALSE]
    /\ guides_files = [r \in Roms |-> {}]
    /\ games = [r \in Roms |-> None]
    /\ games_txt = <<>>
    /\ crawled = <<>>

\* scrape() has not been called.
RunIdle ==
    /\ pc = "idle"
    /\ run = 0
    /\ config = [n_meta |-> 0, n_guides |-> 0, skip_cache |-> FALSE]
    /\ memo = NoMemo
    /\ before_run = [games |-> [r \in Roms |-> None], statuses |-> [r \in Roms |-> NoStatus],
                     images |-> [r \in Roms |-> FALSE], guides |-> [r \in Roms |-> {}],
                     games_txt |-> <<>>, crawled |-> <<>>, progress |-> NewProgress(0)]
    /\ cancel_token = FALSE
    /\ cancel_at = ""
    /\ io_faults = 0
    /\ rom = 0
    /\ game_data = NewGameData(0)
    /\ progress = NewProgress(0)
    /\ cancelled = FALSE
    /\ result = "none"
    /\ scraper_idx = 0
    /\ all_not_found = TRUE
    /\ tried_any = FALSE
    /\ guide_paths = 0
    /\ guide_idx = 0
    /\ last_update = NoUpdate
    /\ calls = <<>>
    /\ search_ok = {}
    /\ rate_limited = {}
    /\ last_call = NoCall
    /\ statuses = [r \in Roms |-> NoStatus]

\* The top of scrape(): BackoffState::new(), the scan succeeds, progress is
\* initialised and "Found N ROMs to process" is sent.
ScrapeEntry(n_meta, n_guides, skip_cache) ==
    /\ run' = run + 1
    /\ config' = [n_meta |-> n_meta, n_guides |-> n_guides, skip_cache |-> skip_cache]
    /\ before_run' = [games |-> games, statuses |-> statuses,
                      images |-> image_exists, guides |-> guides_files,
                      games_txt |-> games_txt, crawled |-> crawled, progress |-> progress]
    /\ cancel_token' = FALSE
    /\ cancel_at' = ""
    /\ backoff' = EmptyScrapers
    /\ waits' = [n \in ScraperNames |-> <<>>]
    /\ rate_limited' = {}
    /\ progress' = NewProgress(n_roms)
    /\ last_update' = send_progress(progress', "Found N ROMs to process", None)
    /\ cancelled' = FALSE
    /\ rom' = 0
    /\ game_data' = NewGameData(0)
    /\ result' = "none"
    /\ statuses' = [r \in Roms |-> NoStatus]
    /\ calls' = <<>>
    /\ search_ok' = {}
    /\ last_call' = NoCall
    /\ pc' = "loop"
    /\ UNCHANGED <<idleVars, n_roms, replay, diskVars, trackVars>>

\* scrape() is called for the first time. The caller passes at least one scraper
\* (run_scraping refuses an empty configuration).
StartScrape(n_meta, n_guides, skip_cache) ==
    /\ pc = "idle"
    /\ n_meta + n_guides >= 1
    /\ ScrapeEntry(n_meta, n_guides, skip_cache)

\* scrape() is called again over the same directory with the same scrapers and
\* configuration, after the previous call returned.
ScrapeAgain ==
    /\ pc = "done"
    /\ run < MaxRuns
    /\ ScrapeEntry(config.n_meta, config.n_guides, config.skip_cache)

\* run_scraping is asked to scrape with no backend enabled: it returns Err
\* before scrape() is called.
NoScrapersConfigured ==
    /\ pc = "idle"
    /\ config' = [n_meta |-> 0, n_guides |-> 0, skip_cache |-> FALSE]
    /\ result' = "Err"
    /\ pc' = "error"
    /\ UNCHANGED <<idleVars, backoffVars, run, n_roms, replay, before_run, cancel_token,
                   cancel_at, diskVars, trackVars, rom, game_data, progress, cancelled,
                   statuses, last_update, histVars>>

\* A plausible slip: the roms are scanned after the progress was initialised and
\* announced, so that a failed scan leaves an event behind.
ScanFails_announced(n_meta, n_guides, skip_cache) ==
    /\ pc = "idle"
    /\ n_meta + n_guides >= 1
    /\ run' = run + 1
    /\ config' = [n_meta |-> n_meta, n_guides |-> n_guides, skip_cache |-> skip_cache]
    /\ backoff' = EmptyScrapers
    /\ last_update' = send_progress(progress, "Found N ROMs to process", None)
    /\ result' = "Err"
    /\ pc' = "error"
    /\ UNCHANGED <<idleVars, waits, n_roms, replay, before_run, cancel_token, cancel_at, diskVars,
                   trackVars, rom, game_data, progress, cancelled, statuses, histVars>>

\* scrape() is called and scan_directory fails: Err is returned before any rom.
ScanFails(n_meta, n_guides, skip_cache) ==
    /\ pc = "idle"
    /\ n_meta + n_guides >= 1
    /\ run' = run + 1
    /\ config' = [n_meta |-> n_meta, n_guides |-> n_guides, skip_cache |-> skip_cache]
    /\ backoff' = EmptyScrapers
    /\ result' = "Err"
    /\ pc' = "error"
    /\ UNCHANGED <<idleVars, waits, n_roms, replay, before_run, cancel_token, cancel_at, diskVars,
                   trackVars, rom, game_data, progress, cancelled, statuses, last_update,
                   histVars>>

\* The holder of the token requests cancellation while scrape() runs.
Cancel ==
    /\ pc \notin {"idle", "done", "error"}
    /\ ~cancel_token
    /\ cancel_token' = TRUE
    /\ cancel_at' = IF pc \in {"loop", "finish"} THEN pc ELSE "item"
    /\ UNCHANGED <<idleVars, backoffVars, pc, run, config, n_roms, replay, before_run,
                   diskVars, loopVars, game_data, trackVars, last_update, histVars>>

\* Head of `for rom in rom_files`: the loop ends when the list is exhausted; else
\* the cancellation check; else the rom's GameData is created and "Processing" sent.
NextRom ==
    /\ pc = "loop"
    /\ IF rom = n_roms
       THEN /\ pc' = "finish"
            /\ UNCHANGED <<rom, progress, cancelled, game_data, last_update, calls, search_ok>>
       ELSE IF cancel_token
       THEN /\ last_update' = send_progress(progress, "Scraping cancelled by user", None)
            /\ cancelled' = TRUE
            /\ pc' = "finish"
            /\ UNCHANGED <<rom, progress, game_data, calls, search_ok>>
       ELSE /\ rom' = rom + 1
            /\ progress' = [progress EXCEPT !.current_rom = Some(rom')]
            /\ game_data' = NewGameData(rom')
            /\ last_update' = send_progress(progress', "Processing", Some(game_data'))
            /\ calls' = <<>>
            /\ search_ok' = {}
            /\ pc' = "metadata"
            /\ UNCHANGED cancelled
    /\ UNCHANGED <<idleVars, backoffVars, envVars, cancel_token, diskVars, result,
                   statuses, trackVars, rate_limited, last_call>>

----------------------------------------------------------------------------
(* scraping.rs: scrape_game_metadata *)

\* A scraper answers a request: any answer the first time; when replay is set, the
\* answer it gave to the same request before.
Answers(request, answer) ==
    /\ (replay /\ request \in DOMAIN memo) => memo[request] = answer
    /\ memo' = IF replay /\ request \notin DOMAIN memo
               THEN [q \in (DOMAIN memo) \cup {request} |->
                        IF q = request THEN answer ELSE memo[q]]
               ELSE memo

\* A track function returns: its locals go out of scope.
TrackReturn ==
    /\ scraper_idx' = 0
    /\ all_not_found' = TRUE
    /\ tried_any' = FALSE
    /\ guide_paths' = 0
    /\ guide_idx' = 0

\* A filesystem operation fails (at most MaxIoFaults of them in one behaviour).
IoFault(n) ==
    /\ io_faults + n <= MaxIoFaults
    /\ io_faults' = io_faults + n

\* A plausible slip: the existing image is ignored and the scrapers are searched anyway.
image_cache_hit_never(cfg, exists) == FALSE

\* A plausible slip: a rom that has a stored record is skipped too, so that a
\* rom no scraper found is not searched again.
image_cache_hit_or_record(cfg, exists) ==
    ~cfg.skip_cache /\ cfg.n_meta > 0 /\ (exists \/ games[rom] # None)

\* The condition of the skip branch: !skip_cache && !scrapers.is_empty() && image_path.exists()
image_cache_hit(cfg, exists) ==
    ~cfg.skip_cache /\ cfg.n_meta > 0 /\ exists

\* The six fields the skip branch copies from the stored record, if there is one.
copy_existing(md, existing) ==
    IF existing = None THEN md
    ELSE [md EXCEPT !.name = existing[1].metadata.name,
                    !.developer = existing[1].metadata.developer,
                    !.publisher = existing[1].metadata.publisher,
                    !.genre = existing[1].metadata.genre,
                    !.release_date = existing[1].metadata.release_date,
                    !.rating = existing[1].metadata.rating]

\* A plausible slip: the publisher is not copied.
copy_found_no_publisher(md, found) ==
    [md EXCEPT !.name = Some(found.name),
               !.developer = found.developer,
               !.genre = found.genre,
               !.release_date = found.release_date,
               !.rating = IF found.rating = None THEN None
                          ELSE Some(format_rating(found.rating[1]))]

\* The six fields set from a successful search.
copy_found(md, found) ==
    [md EXCEPT !.name = Some(found.name),
               !.developer = found.developer,
               !.publisher = found.publisher,
               !.genre = found.genre,
               !.release_date = found.release_date,
               !.rating = IF found.rating = None THEN None
                          ELSE Some(format_rating(found.rating[1]))]

\* Entry of scrape_game_metadata: the skip branch, the no-scraper return, or the
\* start of the search loop.
MetadataBegin ==
    /\ pc = "metadata"
    /\ IF image_cache_hit(config, image_exists[rom])
       THEN /\ game_data' = [game_data EXCEPT !.metadata =
                   [copy_existing(@, load_game_data(games, rom))
                       EXCEPT !.status = "Skipped", !.image_path = Some(rom)]]
            /\ last_update' = send_progress(progress,
                   "Image already exists, skipping metadata scraping", Some(game_data'))
            /\ pc' = "after_metadata"
            /\ UNCHANGED trackVars
       ELSE IF config.n_meta = 0
       THEN /\ pc' = "after_metadata"
            /\ UNCHANGED <<game_data, last_update, trackVars>>
       ELSE /\ game_data' = [game_data EXCEPT !.metadata.status = "Searching"]
            /\ last_update' = send_progress(progress, "Searching for", Some(game_data'))
            /\ all_not_found' = TRUE
            /\ tried_any' = FALSE
            /\ scraper_idx' = 1
            /\ pc' = "meta_loop"
            /\ UNCHANGED <<guide_paths, guide_idx>>
    /\ UNCHANGED <<idleVars, backoffVars, envVars, cancel_token, diskVars, loopVars,
                   histVars>>

\* Head of `for scraper in scrapers`, next scraper: "Trying" is sent and search_game is called.
MetaSearchCall ==
    /\ pc = "meta_loop"
    /\ scraper_idx <= config.n_meta
    /\ last_update' = send_progress(progress, "Trying", None)
    /\ tried_any' = TRUE
    /\ calls' = Append(calls, <<"search_game", scraper_idx>>)
    /\ pc' = "meta_search"
    /\ UNCHANGED <<idleVars, backoffVars, envVars, cancel_token, diskVars, loopVars,
                   game_data, scraper_idx, all_not_found, guide_paths, guide_idx,
                   search_ok, rate_limited, last_call>>

\* The loop ran out of scrapers: "All scrapers failed - mark as failed".
MetaAllFailed ==
    /\ pc = "meta_loop"
    /\ scraper_idx > config.n_meta
    /\ game_data' = [game_data EXCEPT !.metadata.status = "Failed"]
    /\ last_update' = send_progress(progress,
           IF tried_any /\ all_not_found THEN "Not found in any source" ELSE "Failed to scrape",
           Some(game_data'))
    /\ pc' = "after_metadata"
    /\ TrackReturn
    /\ UNCHANGED <<idleVars, backoffVars, envVars, cancel_token, diskVars, loopVars,
                   histVars>>

\* search_game returns. Ok: reset the scraper's backoff, copy the fields, then
\* either start the download, or `continue` when the image directory cannot be
\* created, or finish Failed when there is no image URL. Err: classify and continue.
MetaSearchReturn(outcome, dir_ok) ==
    LET name == MetaName(scraper_idx) IN
    /\ pc = "meta_search"
    /\ Answers(<<"search_game", scraper_idx, rom, 0>>, <<outcome, 0>>)
    /\ last_call' = [name |-> name, idx |-> scraper_idx, kind |-> "search", answer |-> outcome,
                     ok |-> outcome \in {"found_image", "found_no_image"}]
    /\ CASE outcome \in {"found_image", "found_no_image"} ->
            /\ backoff' = reset(backoff, name)
            /\ waits' = [waits EXCEPT ![name] = <<>>]
            /\ rate_limited' = rate_limited \ {name}
            /\ search_ok' = search_ok \cup {scraper_idx}
            /\ IF outcome = "found_image"
               THEN /\ game_data' = [game_data EXCEPT !.metadata =
                           copy_found(@, SearchResult(scraper_idx, rom))]
                    /\ last_update' = send_progress(progress, "Found", Some(game_data'))
                    /\ UNCHANGED <<all_not_found, tried_any, guide_paths, guide_idx>>
                    /\ IF dir_ok
                       THEN /\ calls' = Append(calls, <<"download_image", scraper_idx>>)
                            /\ pc' = "meta_download"
                            /\ UNCHANGED <<scraper_idx, io_faults>>
                       ELSE /\ IoFault(1)
                            /\ scraper_idx' = scraper_idx + 1
                            /\ pc' = "meta_loop"
                            /\ UNCHANGED calls
               ELSE /\ dir_ok
                    /\ game_data' = [game_data EXCEPT !.metadata =
                           [copy_found(@, SearchResult(scraper_idx, rom))
                               EXCEPT !.status = "Failed"]]
                    /\ last_update' = send_progress(progress, "Added metadata to gamelist",
                                                    Some(game_data'))
                    /\ pc' = "after_metadata"
                    /\ TrackReturn
                    /\ UNCHANGED <<calls, io_faults>>
         [] outcome = "GameNotFound" ->
            /\ dir_ok
            /\ scraper_idx' = scraper_idx + 1
            /\ pc' = "meta_loop"
            /\ UNCHANGED <<backoffVars, rate_limited, search_ok, all_not_found, game_data,
                           last_update, calls, io_faults, tried_any, guide_paths, guide_idx>>
         [] outcome = "RateLimitExceeded" ->
            /\ dir_ok
            /\ rate_limited' = rate_limited \cup {name}
            /\ backoff' = apply_backoff(backoff, name)
            /\ IF backoff_secs(backoff, name) > 0
               THEN /\ waits' = [waits EXCEPT ![name] = Append(@, backoff_secs(backoff, name))]
                    /\ last_update' = send_progress(progress, "Pausing (rate limited)", None)
                    /\ pc' = "meta_backoff"
                    /\ UNCHANGED <<scraper_idx, all_not_found>>
               ELSE /\ all_not_found' = FALSE
                    /\ scraper_idx' = scraper_idx + 1
                    /\ pc' = "meta_loop"
                    /\ UNCHANGED <<waits, last_update>>
            /\ UNCHANGED <<search_ok, game_data, calls, io_faults, tried_any, guide_paths,
                           guide_idx>>
         [] OTHER ->
            /\ dir_ok
            /\ all_not_found' = FALSE
            /\ scraper_idx' = scraper_idx + 1
            /\ pc' = "meta_loop"
            /\ UNCHANGED <<backoffVars, rate_limited, search_ok, game_data, last_update, calls,
                           io_faults, tried_any, guide_paths, guide_idx>>
    /\ UNCHANGED <<mergeVars, cacheVars, envVars, cancel_token, image_exists, guides_files, games,
                   games_txt, crawled, loopVars>>

\* A plausible slip: the scraper that was rate limited is searched again after the wait.
after_backoff_retries(idx) == idx

\* After apply_backoff the Err arm ends (`continue` in the metadata track, the
\* end of the match in the guides track): the for loop takes the next scraper.
after_backoff(idx) == idx + 1

\* tokio::time::sleep in apply_backoff is over: back in the Err arm, then `continue`.
MetaBackoffWake ==
    /\ pc = "meta_backoff"
    /\ all_not_found' = FALSE
    /\ scraper_idx' = after_backoff(scraper_idx)
    /\ pc' = "meta_loop"
    /\ UNCHANGED <<idleVars, backoffVars, envVars, cancel_token, diskVars, loopVars,
                   game_data, tried_any, guide_paths, guide_idx, last_update, histVars>>

\* download_image returns: Success with the image path, or Failed; then
\* "Added metadata to gamelist" and return.
MetaDownloadReturn(outcome) ==
    /\ pc = "meta_download"
    /\ Answers(<<"download_image", scraper_idx, rom, 0>>, <<outcome, 0>>)
    /\ last_call' = [name |-> MetaName(scraper_idx), idx |-> scraper_idx, kind |-> "download",
                     answer |-> outcome, ok |-> outcome = "ok"]
    /\ IF outcome = "ok"
       THEN /\ game_data' = [game_data EXCEPT !.metadata.status = "Success",
                                              !.metadata.image_path = Some(rom)]
            /\ image_exists' = [image_exists EXCEPT ![rom] = TRUE]
            /\ UNCHANGED io_faults
       ELSE /\ game_data' = [game_data EXCEPT !.metadata.status = "Failed"]
            /\ IF outcome = "err_file_left"
               THEN /\ IoFault(1)
                    /\ image_exists' = [image_exists EXCEPT ![rom] = TRUE]
               ELSE UNCHANGED <<io_faults, image_exists>>
    /\ last_update' = send_progress(progress, "Added metadata to gamelist", Some(game_data'))
    /\ pc' = "after_metadata"
    /\ TrackReturn
    /\ UNCHANGED <<mergeVars, cacheVars, backoffVars, envVars, cancel_token, guides_files, games,
                   games_txt, crawled, loopVars, calls, search_ok, rate_limited>>

----------------------------------------------------------------------------
(* scraping.rs: scrape_game_guides *)

\* guides_exist: !skip_cache && guides_dir.exists() && read_dir(..).count() > 0
guides_cache_hit(cfg, files) ==
    ~cfg.skip_cache /\ files # {}

\* A plausible slip: the skip branch always counts the directory entries.
existing_guides_count_from_dir(existing, files) == Some(Cardinality(files))

\* The count the skip branch records: the stored one if there is one, else the
\* number of directory entries.
existing_guides_count(existing, files) ==
    IF existing # None /\ existing[1].guides.count # None
    THEN existing[1].guides.count
    ELSE Some(Cardinality(files))

\* A plausible slip: an empty list ends the search (`return` in the Ok(_) arm).
after_empty_list_returns(idx, n_guides) == n_guides + 1

\* The Ok(_) arm of the search loop falls through to the next guides scraper.
after_empty_list(idx, n_guides) == idx + 1

\* `if !guides_scrapers.is_empty()` in scrape(), then the entry of
\* scrape_game_guides: the skip branch or the start of the search loop.
GuidesBegin ==
    /\ pc = "after_metadata"
    /\ config.n_guides > 0
    /\ IF guides_cache_hit(config, guides_files[rom])
       THEN /\ game_data' = [game_data EXCEPT !.guides =
                   [status |-> "Skipped",
                    count |-> existing_guides_count(load_game_data(games, rom),
                                                    guides_files[rom])]]
            /\ last_update' = send_progress(progress, "Guides already exist, skipping",
                                            Some(game_data'))
            /\ pc' = "after_guides"
            /\ UNCHANGED scraper_idx
       ELSE /\ game_data' = [game_data EXCEPT !.guides.status = "Searching"]
            /\ last_update' = send_progress(progress, "Searching for guides for",
                                            Some(game_data'))
            /\ scraper_idx' = 1
            /\ pc' = "guides_loop"
    /\ UNCHANGED <<idleVars, backoffVars, envVars, cancel_token, diskVars, loopVars,
                   all_not_found, tried_any, guide_paths, guide_idx, histVars>>

\* Head of `for guides_scraper in guides_scrapers`: search_game_guides is called.
GuidesSearchCall ==
    /\ pc = "guides_loop"
    /\ scraper_idx <= config.n_guides
    /\ calls' = Append(calls, <<"search_game_guides", scraper_idx>>)
    /\ pc' = "guides_search"
    /\ UNCHANGED <<idleVars, backoffVars, envVars, cancel_token, diskVars, loopVars,
                   game_data, trackVars, last_update, search_ok, rate_limited, last_call>>

\* The loop ran out of guides scrapers: the function returns.
GuidesLoopEnd ==
    /\ pc = "guides_loop"
    /\ scraper_idx > config.n_guides
    /\ pc' = "after_guides"
    /\ TrackReturn
    /\ UNCHANGED <<idleVars, backoffVars, envVars, cancel_token, diskVars, loopVars,
                   game_data, last_update, histVars>>

\* search_game_guides returns. Ok(non-empty): reset the backoff, Success, create
\* the directory (return on failure) and start the downloads. Ok(empty): Failed,
\* next scraper. Err: classify, back off on a rate limit, Failed, next scraper.
GuidesSearchReturn(outcome, n, dir_ok) ==
    LET name == GuideName(scraper_idx) IN
    /\ pc = "guides_search"
    /\ Answers(<<"search_game_guides", scraper_idx, rom, 0>>, <<outcome, n>>)
    /\ last_call' = [name |-> name, idx |-> scraper_idx, kind |-> "search", answer |-> outcome,
                     ok |-> outcome \in {"guides", "no_guides"}]
    /\ CASE outcome = "guides" ->
            /\ backoff' = reset(backoff, name)
            /\ waits' = [waits EXCEPT ![name] = <<>>]
            /\ rate_limited' = rate_limited \ {name}
            /\ game_data' = [game_data EXCEPT !.guides.status = "Success"]
            /\ IF dir_ok
               THEN /\ guide_paths' = n
                    /\ guide_idx' = 1
                    /\ pc' = "guide_files"
                    /\ UNCHANGED <<last_update, scraper_idx, all_not_found, tried_any,
                                   io_faults>>
               ELSE /\ n = 1
                    /\ IoFault(1)
                    /\ last_update' = send_progress(progress,
                           "Warning: Failed to create guides directory", None)
                    /\ pc' = "after_guides"
                    /\ TrackReturn
         [] outcome = "no_guides" ->
            /\ n = 1 /\ dir_ok
            /\ rate_limited' = rate_limited \ {name}
            /\ game_data' = [game_data EXCEPT !.guides.status = "Failed"]
            /\ last_update' = send_progress(progress, "No guides found", Some(game_data'))
            /\ scraper_idx' = after_empty_list(scraper_idx, config.n_guides)
            /\ pc' = "guides_loop"
            /\ UNCHANGED <<backoffVars, guide_paths, guide_idx, all_not_found, tried_any,
                           io_faults>>
         [] outcome = "RateLimitExceeded" ->
            /\ n = 1 /\ dir_ok
            /\ rate_limited' = rate_limited \cup {name}
            /\ backoff' = apply_backoff(backoff, name)
            /\ IF backoff_secs(backoff, name) > 0
               THEN /\ waits' = [waits EXCEPT ![name] = Append(@, backoff_secs(backoff, name))]
                    /\ last_update' = send_progress(progress, "Pausing (rate limited)", None)
                    /\ pc' = "guides_backoff"
                    /\ UNCHANGED <<game_data, scraper_idx>>
               ELSE /\ game_data' = [game_data EXCEPT !.guides.status = "Failed"]
                    /\ last_update' = send_progress(progress, "Guide search error",
                                                    Some(game_data'))
                    /\ scraper_idx' = scraper_idx + 1
                    /\ pc' = "guides_loop"
                    /\ UNCHANGED waits
            /\ UNCHANGED <<guide_paths, guide_idx, all_not_found, tried_any, io_faults>>
         [] OTHER ->
            /\ n = 1 /\ dir_ok
            /\ game_data' = [game_data EXCEPT !.guides.status = "Failed"]
            /\ last_update' = send_progress(progress, "Guide search error", Some(game_data'))
            /\ scraper_idx' = scraper_idx + 1
            /\ pc' = "guides_loop"
            /\ UNCHANGED <<backoffVars, rate_limited, guide_paths, guide_idx, all_not_found,
                           tried_any, io_faults>>
    /\ UNCHANGED <<mergeVars, cacheVars, envVars, cancel_token, image_exists, guides_files, games,
                   games_txt, crawled, loopVars, calls, search_ok>>

\* tokio::time::sleep in apply_backoff is over: Failed, "Guide search error", next scraper.
GuidesBackoffWake ==
    /\ pc = "guides_backoff"
    /\ game_data' = [game_data EXCEPT !.guides.status = "Failed"]
    /\ last_update' = send_progress(progress, "Guide search error", Some(game_data'))
    /\ scraper_idx' = after_backoff(scraper_idx)
    /\ pc' = "guides_loop"
    /\ UNCHANGED <<idleVars, backoffVars, envVars, cancel_token, diskVars, loopVars,
                   all_not_found, tried_any, guide_paths, guide_idx, histVars>>

\* Head of `for guide_path in guide_paths.iter()`: download_guide is called.
GuideDownloadCall ==
    /\ pc = "guide_files"
    /\ guide_idx <= guide_paths
    /\ calls' = Append(calls, <<"download_guide", scraper_idx>>)
    /\ pc' = "guide_download"
    /\ UNCHANGED <<idleVars, backoffVars, envVars, cancel_token, diskVars, loopVars,
                   game_data, trackVars, last_update, search_ok, rate_limited, last_call>>

\* download_guide returns: the file is in the directory, or the failure is reported
\* and the loop goes on.
GuideDownloadReturn(outcome) ==
    /\ pc = "guide_download"
    /\ Answers(<<"download_guide", scraper_idx, rom, guide_idx>>, <<outcome, 0>>)
    /\ last_call' = [name |-> GuideName(scraper_idx), idx |-> scraper_idx, kind |-> "download",
                     answer |-> outcome, ok |-> outcome = "ok"]
    /\ guides_files' = IF outcome \in {"ok", "err_file_left"}
                       THEN [guides_files EXCEPT ![rom] = @ \cup {guide_idx}]
                       ELSE guides_files
    /\ IF outcome = "err_file_left" THEN IoFault(1) ELSE UNCHANGED io_faults
    /\ last_update' = IF outcome = "ok" THEN last_update
                      ELSE send_progress(progress, "Failed to download guide", None)
    /\ guide_idx' = guide_idx + 1
    /\ pc' = "guide_files"
    /\ UNCHANGED <<mergeVars, cacheVars, backoffVars, envVars, cancel_token, image_exists, games,
                   games_txt, crawled, loopVars, game_data, scraper_idx, all_not_found,
                   tried_any, guide_paths, calls, search_ok, rate_limited>>

\* All guide paths were tried: "Found N guide(s)" and return.
GuidesFound ==
    /\ pc = "guide_files"
    /\ guide_idx > guide_paths
    /\ last_update' = send_progress(progress, "Found N guide(s)", Some(game_data))
    /\ pc' = "after_guides"
    /\ TrackReturn
    /\ UNCHANGED <<idleVars, backoffVars, envVars, cancel_token, diskVars, loopVars,
                   game_data, histVars>>

----------------------------------------------------------------------------
(* lib.rs: scrape(), after the tracks *)

\* A plausible slip: the guides status is merged in even when no guides track ran.
item_status_always_merged(cfg, gd) == merge(gd.metadata.status, gd.guides.status)

\* `let status = if !guides_scrapers.is_empty() { .. merge .. } else { metadata.status }`
item_status(cfg, gd) ==
    IF cfg.n_guides > 0 THEN merge(gd.metadata.status, gd.guides.status)
    ELSE gd.metadata.status

\* A plausible slip: the Skipped arm and the catch-all arm swapped.
count_status_arms_swapped(p, status) ==
    [p EXCEPT !.success_count = IF status = "Success" THEN @ + 1 ELSE @,
              !.fail_count = IF status = "Skipped" THEN @ + 1 ELSE @,
              !.skip_count = IF status \notin {"Success", "Skipped"} THEN @ + 1 ELSE @,
              !.completed = @ + 1]

\* A plausible slip: a rom that finishes after cancellation was requested is
\* not counted.
count_status_unless_cancelled(p, status) ==
    IF cancel_token THEN p
    ELSE [p EXCEPT !.success_count = IF status = "Success" THEN @ + 1 ELSE @,
                   !.skip_count = IF status = "Skipped" THEN @ + 1 ELSE @,
                   !.fail_count = IF status \notin {"Success", "Skipped"} THEN @ + 1 ELSE @,
                   !.completed = @ + 1]

\* A plausible slip: a rom that failed is left out of the counters.
count_status_failed_uncounted(p, status) ==
    IF status \notin {"Success", "Skipped"} THEN p
    ELSE [p EXCEPT !.success_count = IF status = "Success" THEN @ + 1 ELSE @,
                   !.skip_count = IF status = "Skipped" THEN @ + 1 ELSE @,
                   !.completed = @ + 1]

\* The counters after a rom with the given status.
count_status(p, status) ==
    [p EXCEPT !.success_count = IF status = "Success" THEN @ + 1 ELSE @,
              !.skip_count = IF status = "Skipped" THEN @ + 1 ELSE @,
              !.fail_count = IF status \notin {"Success", "Skipped"} THEN @ + 1 ELSE @,
              !.completed = @ + 1]

\* A plausible slip: the three writes are followed by `?`, so that a failed
\* write returns from scrape().
after_persist_propagates(save, index_ok, crawled_ok) ==
    IF save = "ok" /\ index_ok /\ crawled_ok THEN "loop" ELSE "error"

\* A plausible slip: a `break` after the writes, so that the loop ends with the
\* first rom.
after_persist_ends(save, index_ok, crawled_ok) == "finish"

\* Where scrape() goes on after the three writes: each `if let Err(e)` only
\* logs a warning, and the loop takes its next iteration.
after_persist(save, index_ok, crawled_ok) == "loop"

\* The rom's tracks are over: its status is folded into the counters, its record
\* is saved and a line goes to games.txt and to crawled; each write may fail and
\* is only logged.
FoldAndPersist(save, index_ok, crawled_ok) ==
    /\ \/ pc = "after_metadata" /\ config.n_guides = 0
       \/ pc = "after_guides"
    /\ progress' = count_status(progress, item_status(config, game_data))
    /\ statuses' = [statuses EXCEPT ![rom] = item_status(config, game_data)]
    /\ IoFault((IF save = "ok" THEN 0 ELSE 1) + (IF index_ok THEN 0 ELSE 1)
               + (IF crawled_ok THEN 0 ELSE 1))
    /\ games' = save_game_data(games, rom, game_data, save)
    /\ games_txt' = append_line(games_txt, game_data.rom_name, index_ok)
    /\ crawled' = append_line(crawled, rom, crawled_ok)
    /\ pc' = after_persist(save, index_ok, crawled_ok)
    /\ UNCHANGED <<idleVars, backoffVars, envVars, cancel_token, image_exists,
                   guides_files, rom, cancelled, result, game_data, trackVars,
                   last_update, histVars>>

\* After the loop: current_rom is cleared, the summary is sent and Ok(progress) returned.
Finish ==
    /\ pc = "finish"
    /\ progress' = [progress EXCEPT !.current_rom = None]
    /\ last_update' = send_progress(progress',
           IF cancelled THEN "Scraping cancelled!" ELSE "Scraping complete!", None)
    /\ result' = "Ok"
    /\ pc' = "done"
    /\ UNCHANGED <<idleVars, backoffVars, envVars, cancel_token, diskVars, rom, cancelled,
                   statuses, game_data, trackVars, histVars>>

\* A record an earlier scrape of rom r by the first metadata scraper has stored.
StoredRecord(r) ==
    [NewGameData(r) EXCEPT
        !.metadata = [copy_found(@, SearchResult(1, r))
                         EXCEPT !.status = "Success", !.image_path = Some(r)]]

\* One scrape() call over a directory with one rom, which earlier calls may have
\* scraped already: its image, its guides and its record may or may not be there.
Init ==
    /\ MergeIdle
    /\ backoff = EmptyScrapers
    /\ waits = [n \in ScraperNames |-> <<>>]
    /\ n_roms = 1
    /\ replay = FALSE
    /\ RunIdle
    /\ CacheIdle
    /\ \E image \in BOOLEAN, guides \in {{}, {1}}, stored \in BOOLEAN :
          /\ image_exists = [r \in Roms |-> r <= n_roms /\ image]
          /\ guides_files = [r \in Roms |-> IF r <= n_roms THEN guides ELSE {}]
          /\ games = [r \in Roms |->
                         IF r <= n_roms /\ stored THEN Some(StoredRecord(r)) ELSE None]
    /\ games_txt = <<>>
    /\ crawled = <<>>

Next ==
    \/ \E n_meta \in 0..MaxMeta, n_guides \in 0..MaxGuides, skip_cache \in BOOLEAN :
          \/ StartScrape(n_meta, n_guides, skip_cache)
          \/ ScanFails(n_meta, n_guides, skip_cache)
    \/ NextRom
    \/ MetadataBegin
    \/ MetaSearchCall
    \/ MetaAllFailed
    \/ \E outcome \in SearchOutcome, dir_ok \in BOOLEAN : MetaSearchReturn(outcome, dir_ok)
    \/ MetaBackoffWake
    \/ \E outcome \in DownloadOutcome : MetaDownloadReturn(outcome)
    \/ GuidesBegin
    \/ GuidesSearchCall
    \/ GuidesLoopEnd
    \/ \E outcome \in GuidesOutcome, n \in 1..MaxGuidePaths, dir_ok \in BOOLEAN :
          GuidesSearchReturn(outcome, n, dir_ok)
    \/ GuidesBackoffWake
    \/ GuideDownloadCall
    \/ \E outcome \in DownloadOutcome : GuideDownloadReturn(outcome)
    \/ GuidesFound
    \/ \E save \in SaveOutcome, index_ok \in BOOLEAN, crawled_ok \in BOOLEAN :
          FoldAndPersist(save, index_ok, crawled_ok)
    \/ Finish

Spec == Init /\ [][Next]_vars

\* One scrape() call over a fresh directory with up to MaxRoms roms, during which
\* cancellation may be requested; at most one metadata scraper and one guides
\* scraper, no forced refresh (the directory is fresh), one guide path per
\* search, errors drawn from ErrorCases, downloads succeed or fail cleanly.
SessionInit ==
    /\ MergeIdle
    /\ backoff = EmptyScrapers
    /\ waits = [n \in ScraperNames |-> <<>>]
    /\ n_roms \in 0..MaxRoms
    /\ replay = FALSE
    /\ RunIdle
    /\ CacheIdle
    /\ FreshDirectory

SessionNext ==
    \/ \E n_meta \in 0..1, n_guides \in 0..1 :
          \/ StartScrape(n_meta, n_guides, FALSE)
          \/ ScanFails(n_meta, n_guides, FALSE)
    \/ NoScrapersConfigured
    \/ Cancel
    \/ NextRom
    \/ MetadataBegin
    \/ MetaSearchCall
    \/ MetaAllFailed
    \/ \E outcome \in {"found_image", "found_no_image"} \cup ErrorCases, dir_ok \in BOOLEAN :
          MetaSearchReturn(outcome, dir_ok)
    \/ MetaBackoffWake
    \/ \E outcome \in {"ok", "err"} : MetaDownloadReturn(outcome)
    \/ GuidesBegin
    \/ GuidesSearchCall
    \/ GuidesLoopEnd
    \/ \E outcome \in {"guides", "no_guides"} \cup ErrorCases, dir_ok \in BOOLEAN :
          GuidesSearchReturn(outcome, 1, dir_ok)
    \/ GuidesBackoffWake
    \/ GuideDownloadCall
    \/ \E outcome \in {"ok", "err"} : GuideDownloadReturn(outcome)
    \/ GuidesFound
    \/ \E save \in SaveOutcome, index_ok \in BOOLEAN, crawled_ok \in BOOLEAN :
          FoldAndPersist(save, index_ok, crawled_ok)
    \/ Finish

SpecSession == SessionInit /\ [][SessionNext]_vars

\* scrape() called MaxRuns times in a row over the same directory with one rom,
\* starting fresh, without forced refresh, with the same scrapers, whose answers
\* do not change between the calls; directory creation and record writes
\* succeed; errors are drawn from ErrorCases.
RerunInit ==
    /\ MergeIdle
    /\ backoff = EmptyScrapers
    /\ waits = [n \in ScraperNames |-> <<>>]
    /\ n_roms = 1
    /\ replay = TRUE
    /\ RunIdle
    /\ CacheIdle
    /\ FreshDirectory

RerunNext ==
    \/ \E n_meta \in 0..MaxMeta, n_guides \in 0..MaxGuides :
          StartScrape(n_meta, n_guides, FALSE)
    \/ ScrapeAgain
    \/ NextRom
    \/ MetadataBegin
    \/ MetaSearchCall
    \/ MetaAllFailed
    \/ \E outcome \in {"found_image", "found_no_image"} \cup ErrorCases :
          MetaSearchReturn(outcome, TRUE)
    \/ MetaBackoffWake
    \/ \E outcome \in DownloadOutcome : MetaDownloadReturn(outcome)
    \/ GuidesBegin
    \/ GuidesSearchCall
    \/ GuidesLoopEnd
    \/ \E outcome \in {"guides", "no_guides"} \cup ErrorCases, n \in 1..MaxGuidePaths :
          GuidesSearchReturn(outcome, n, TRUE)
    \/ GuidesBackoffWake
    \/ GuideDownloadCall
    \/ \E outcome \in DownloadOutcome : GuideDownloadReturn(outcome)
    \/ GuidesFound
    \/ FoldAndPersist("ok", TRUE, TRUE)
    \/ Finish

SpecRerun == RerunInit /\ [][RerunNext]_vars

\* The end-to-end scenario: one scrape() call over a fresh directory with
\* E2ERoms roms, one metadata scraper, no guides scraper, no forced refresh.
\* The scraper's answers are kept in memo; its errors are drawn from ErrorCases.
E2EInit ==
    /\ MergeIdle
    /\ backoff = EmptyScrapers
    /\ waits = [n \in ScraperNames |-> <<>>]
    /\ n_roms = E2ERoms
    /\ replay = TRUE
    /\ RunIdle
    /\ CacheIdle
    /\ FreshDirectory

E2ENext ==
    \/ StartScrape(1, 0, FALSE)
    \/ NextRom
    \/ MetadataBegin
    \/ MetaSearchCall
    \/ MetaAllFailed
    \/ \E outcome \in {"found_image", "found_no_image"} \cup ErrorCases, dir_ok \in BOOLEAN :
          MetaSearchReturn(outcome, dir_ok)
    \/ MetaBackoffWake
    \/ \E outcome \in DownloadOutcome : MetaDownloadReturn(outcome)
    \/ \E save \in SaveOutcome, index_ok \in BOOLEAN, crawled_ok \in BOOLEAN :
          FoldAndPersist(save, index_ok, crawled_ok)
    \/ Finish

SpecE2E == E2EInit /\ [][E2ENext]_vars

----------------------------------------------------------------------------
(* ScrapeStatus::merge driven over all inputs *)

MergeInit ==
    /\ ma \in ScrapeStatus /\ mb \in ScrapeStatus /\ mc \in ScrapeStatus
    /\ mab = NoStatus /\ mabc = NoStatus
    /\ backoff = EmptyScrapers
    /\ waits = [n \in BackoffNames |-> <<>>]
    /\ n_roms = 0
    /\ replay = FALSE
    /\ RunIdle
    /\ CacheIdle
    /\ FreshDirectory

MergeFirst ==
    /\ mab = NoStatus
    /\ mab' = merge(ma, mb)
    /\ UNCHANGED <<ma, mb, mc, mabc, backoff, waits, runVars, cacheVars>>

MergeSecond ==
    /\ mab # NoStatus /\ mabc = NoStatus
    /\ mabc' = merge(mab, mc)
    /\ UNCHANGED <<ma, mb, mc, mab, backoff, waits, runVars, cacheVars>>

MergeNext == MergeFirst \/ MergeSecond

SpecMerge == MergeInit /\ [][MergeNext]_vars

----------------------------------------------------------------------------
(* BackoffState driven through its public interface *)

BackoffInit ==
    /\ MergeIdle
    /\ backoff = EmptyScrapers
    /\ waits = [n \in BackoffNames |-> <<>>]
    /\ n_roms = 0
    /\ replay = FALSE
    /\ RunIdle
    /\ CacheIdle
    /\ FreshDirectory

ApplyBackoffCall(name) ==
    /\ Len(waits[name]) < MaxBackoffCalls
    /\ backoff' = apply_backoff(backoff, name)
    /\ waits' = [waits EXCEPT ![name] = Append(@, backoff_secs(backoff, name))]
    /\ UNCHANGED <<mergeVars, cacheVars, runVars>>

ResetCall(name) ==
    /\ backoff' = reset(backoff, name)
    /\ waits' = [waits EXCEPT ![name] = <<>>]
    /\ UNCHANGED <<mergeVars, cacheVars, runVars>>

BackoffNext ==
    \E name \in BackoffNames : ApplyBackoffCall(name) \/ ResetCall(name)

SpecBackoff == BackoffInit /\ [][BackoffNext]_vars

----------------------------------------------------------------------------
(* Claims *)

Rank(s) ==
    CASE s = "Success" -> 4
      [] s = "Failed" -> 3
      [] s = "Searching" -> 2
      [] s = "Pending" -> 1
      [] s = "Skipped" -> 0

\* C1: merge(a, b) is the higher-precedence of a and b under
\* Success > Failed > Searching > Pending > Skipped; Skipped only when both are.
C1_MergeIsMaxPrecedence ==
    mab # NoStatus =>
        /\ mab \in {ma, mb}
        /\ Rank(mab) >= Rank(ma) /\ Rank(mab) >= Rank(mb)
        /\ (mab = "Skipped" <=> (ma = "Skipped" /\ mb = "Skipped"))

C1_Witness == ma = "Pending" /\ mb = "Searching" /\ mab = "Searching"

\* C2: merge is commutative, associative and idempotent.
C2_MergeCommutative ==
    /\ mab # NoStatus => mab = merge(mb, ma)
    /\ (mab # NoStatus /\ ma = mb) => mab = ma
    /\ mabc # NoStatus => mabc = merge(ma, merge(mb, mc))

C2_Witness == ma = "Failed" /\ mb = "Success" /\ mc = "Skipped" /\ mabc = "Success"

Min(a, b) == IF a <= b THEN a ELSE b

RECURSIVE Pow2(_)
Pow2(k) == IF k = 0 THEN 1 ELSE 2 * Pow2(k - 1)

\* C9: the k-th consecutive apply_backoff for a scraper waits min(2^(k-1), 300) s,
\* never gives up, and after reset the scraper has no entry and its next wait is 1 s.
C9_BackoffSchedule ==
    \A n \in BackoffNames :
        /\ \A k \in 1..Len(waits[n]) : waits[n][k] = Min(Pow2(k - 1), 300)
        /\ (waits[n] = <<>>) <=> (n \notin DOMAIN backoff)

C9_Witness ==
    /\ Len(waits[MetaName(1)]) = 11
    /\ waits[MetaName(1)][9] = 256
    /\ waits[MetaName(1)][11] = 300
    /\ Len(waits[GuideName(1)]) = 1

\* The six text fields of a GameMetadata.
TextFields(md) ==
    <<md.name, md.developer, md.publisher, md.genre, md.release_date, md.rating>>

MetaKinds == {"search_game", "download_image"}
GuideKinds == {"search_game_guides", "download_guide"}
MetaPcs == {"metadata", "meta_loop", "meta_search", "meta_backoff", "meta_download"}
GuidesPcs == {"guides_loop", "guides_search", "guides_backoff", "guide_files",
              "guide_download", "after_guides"}

\* The metadata track of the current rom has returned.
MetadataOver == rom >= 1 /\ pc \notin MetaPcs

\* The current rom's status has been folded into the counters.
Folded == rom >= 1 /\ statuses[rom] # NoStatus

\* C3: for every rom no metadata request follows a guides request; the guides
\* track is entered only when a guides scraper is configured and only after the
\* metadata track returned; without a guides scraper no guides request is made,
\* the guides status stays Pending and the folded status is the metadata status;
\* with one, the folded status is the higher-precedence of the two statuses.
C3_TracksInOrderAndFolded ==
    /\ \A i \in 1..Len(calls), j \in 1..Len(calls) :
          (i < j /\ calls[i][1] \in GuideKinds) => calls[j][1] \in GuideKinds
    /\ pc \in GuidesPcs =>
          config.n_guides > 0 /\ game_data.metadata.status # "Searching"
    /\ (rom >= 1 /\ config.n_guides = 0) =>
          /\ \A k \in 1..Len(calls) : calls[k][1] \notin GuideKinds
          /\ game_data.guides.status = "Pending"
    /\ Folded =>
          IF config.n_guides > 0
          THEN /\ statuses[rom] \in {game_data.metadata.status, game_data.guides.status}
               /\ Rank(statuses[rom]) >= Rank(game_data.metadata.status)
               /\ Rank(statuses[rom]) >= Rank(game_data.guides.status)
          ELSE statuses[rom] = game_data.metadata.status

C3_Witness ==
    /\ pc = "done"
    /\ config.n_guides > 0
    /\ game_data.metadata.status = "Failed"
    /\ game_data.guides.status = "Success"
    /\ statuses[1] = "Success"
    /\ calls[1][1] = "search_game"
    /\ calls[Len(calls)][1] = "download_guide"

ArtifactsPresent(r) ==
    /\ before_run.images[r]
    /\ config.n_guides > 0 => before_run.guides[r] # {}

RECURSIVE SearchesUpTo(_)
SearchesUpTo(k) ==
    IF k = 0 THEN 0
    ELSE SearchesUpTo(k - 1) + (IF calls[k][1] = "search_game" THEN 1 ELSE 0)

\* C6: the metadata scrapers are searched in configured order; a search or a
\* download is requested from a scraper only if no scraper before it has
\* answered its search with a result for the rom.
C6_FirstSuccessfulSearchWins ==
    \A k \in 1..Len(calls) :
        /\ calls[k][1] = "search_game" => calls[k][2] = SearchesUpTo(k)
        /\ calls[k][1] \in MetaKinds => \A j \in search_ok : j >= calls[k][2]

\* What copy of scraper j's answer for rom r the record must hold.
FoundFields(j, r) ==
    <<Some(SearchResult(j, r).name), SearchResult(j, r).developer,
      SearchResult(j, r).publisher, SearchResult(j, r).genre,
      SearchResult(j, r).release_date,
      IF SearchResult(j, r).rating = None THEN None
      ELSE Some(format_rating(SearchResult(j, r).rating[1]))>>

\* C7: when the metadata track returns right after a download, the status is
\* Success if the download succeeded and Failed if it failed, and in both cases
\* the six text fields are those the scraper's search answered; when it returns
\* right after a search that answered without an image URL, the status is Failed.
C7_StatusAfterSuccessfulSearch ==
    /\ (pc = "after_metadata" /\ last_call.kind = "download") =>
          /\ last_call.answer = "ok" => game_data.metadata.status = "Success"
          /\ last_call.answer # "ok" => game_data.metadata.status = "Failed"
          /\ TextFields(game_data.metadata) = FoundFields(last_call.idx, rom)
    /\ (pc = "after_metadata" /\ last_call.kind = "search"
            /\ last_call.answer = "found_no_image") =>
          /\ game_data.metadata.status = "Failed"
          /\ TextFields(game_data.metadata) = FoundFields(last_call.idx, rom)

C7_Witness ==
    /\ pc = "after_metadata"
    /\ last_call.kind = "download" /\ last_call.answer = "err" /\ last_call.idx = 1
    /\ game_data.metadata.status = "Failed"
    /\ game_data.metadata.publisher = Some(201)

\* The scraper found rom r with an image URL and the download succeeded.
FoundWithImage(r) ==
    /\ <<"search_game", 1, r, 0>> \in DOMAIN memo
    /\ memo[<<"search_game", 1, r, 0>>][1] = "found_image"
    /\ <<"download_image", 1, r, 0>> \in DOMAIN memo
    /\ memo[<<"download_image", 1, r, 0>>][1] = "ok"

\* The scraper answered not-found for rom r.
AnsweredNotFound(r) ==
    /\ <<"search_game", 1, r, 0>> \in DOMAIN memo
    /\ memo[<<"search_game", 1, r, 0>>][1] = "GameNotFound"

\* C8: in the end-to-end scenario every rom found with an image that downloads
\* is folded as Success and every rom answered not-found is folded as Failed
\* with a stored record (if the write succeeded) of status Failed; when every
\* rom is one or the other, success_count and fail_count are their numbers and
\* skip_count is 0; no guides request is made and no record leaves guides Pending.
C8_EndToEndCounts ==
    /\ \A r \in 1..n_roms :
          statuses[r] # NoStatus =>
              /\ FoundWithImage(r) => statuses[r] = "Success"
              /\ AnsweredNotFound(r) =>
                    /\ statuses[r] = "Failed"
                    /\ games[r] # None => games[r][1].metadata.status = "Failed"
              /\ games[r] # None => games[r][1].guides = [status |-> "Pending", count |-> None]
    /\ \A k \in 1..Len(calls) : calls[k][1] \notin GuideKinds
    /\ pc \notin GuidesPcs
    /\ (pc = "done" /\ \A r \in 1..n_roms : FoundWithImage(r) \/ AnsweredNotFound(r)) =>
          /\ progress.success_count = Cardinality({r \in 1..n_roms : FoundWithImage(r)})
          /\ progress.fail_count = Cardinality({r \in 1..n_roms : AnsweredNotFound(r)})
          /\ progress.skip_count = 0
          /\ progress.completed = n_roms

C8_Witness ==
    /\ pc = "done"
    /\ FoundWithImage(1) /\ FoundWithImage(2) /\ AnsweredNotFound(3)
    /\ progress.success_count = 2 /\ progress.fail_count = 1 /\ progress.skip_count = 0
    /\ games[3] # None /\ games[3][1].metadata.status = "Failed"

\* C10: right after a search request of a scraper returned without error, the
\* scraper has no backoff entry; and a scraper has an entry only if it signalled
\* a rate limit and no search of it has returned without error since.
C10_BackoffAbsentAfterSuccess ==
    /\ (last_call.kind = "search" /\ last_call.ok) => last_call.name \notin DOMAIN backoff
    /\ DOMAIN backoff \subseteq rate_limited

\* The backoff entry of scraper n, if any.
Entry(scrapers, n) == IF n \in DOMAIN scrapers THEN Some(scrapers[n]) ELSE None

\* C11: a step that is apply_backoff(p) or reset(p) leaves the entry of every
\* other scraper q as it was, and so the wait q would get next; that wait is
\* fixed by the number of q's own waits since q's last reset.
C11_BackoffPerScraper ==
    [][\A p \in BackoffNames :
          (backoff' = apply_backoff(backoff, p) \/ backoff' = reset(backoff, p)) =>
              \A q \in BackoffNames \ {p} :
                  /\ Entry(backoff', q) = Entry(backoff, q)
                  /\ backoff_secs(backoff', q) = backoff_secs(backoff, q)
                  /\ backoff_secs(backoff', q) = Min(Pow2(Len(waits'[q])), 300)]_vars

C11_Witness ==
    /\ Len(waits[MetaName(1)]) = 3
    /\ Len(waits[GuideName(1)]) = 1
    /\ backoff[MetaName(1)].current_interval = 8
    /\ backoff[GuideName(1)].current_interval = 2

\* What scrape() has returned: Ok(progress), a ScrapingProgress.
Returned == IF result = "Ok" THEN Some(progress) ELSE None

\* The roms whose status has been folded into the counters.
FoldedRoms == {r \in 1..n_roms : statuses[r] # NoStatus}

\* What a cancelled call leaves behind, the returned flag aside: the roms after
\* the last completed one were never started (no request, no counter update, no
\* record), the completed ones have their status, and completed counts them.
CancelledRunStopsAtBoundary ==
    (pc = "done" /\ cancelled) =>
        /\ rom = progress.completed
        /\ FoldedRoms = 1..progress.completed
        /\ progress.completed < n_roms
        /\ progress.success_count + progress.fail_count + progress.skip_count
              = progress.completed
        /\ \A r \in (progress.completed + 1)..n_roms : games[r] = None
        /\ Len(crawled) <= progress.completed

\* C12: when a cancelled call has returned, the above holds and the returned
\* summary says cancelled = true.
C12_CancelledBetweenItems ==
    (pc = "done" /\ cancelled) =>
        /\ CancelledRunStopsAtBoundary
        /\ Returned # None
        /\ "cancelled" \in DOMAIN Returned[1]
        /\ Returned[1].cancelled

\* scrape() is inside the processing of the current rom.
ItemPcs == MetaPcs \cup {"after_metadata"} \cup GuidesPcs

\* Any step of the processing of the current rom.
ItemStep ==
    \/ MetadataBegin
    \/ MetaSearchCall
    \/ MetaAllFailed
    \/ \E outcome \in SearchOutcome, dir_ok \in BOOLEAN : MetaSearchReturn(outcome, dir_ok)
    \/ MetaBackoffWake
    \/ \E outcome \in DownloadOutcome : MetaDownloadReturn(outcome)
    \/ GuidesBegin
    \/ GuidesSearchCall
    \/ GuidesLoopEnd
    \/ \E outcome \in GuidesOutcome, n \in 1..MaxGuidePaths, dir_ok \in BOOLEAN :
          GuidesSearchReturn(outcome, n, dir_ok)
    \/ GuidesBackoffWake
    \/ GuideDownloadCall
    \/ \E outcome \in DownloadOutcome : GuideDownloadReturn(outcome)
    \/ GuidesFound
    \/ \E save \in SaveOutcome, index_ok \in BOOLEAN, crawled_ok \in BOOLEAN :
          FoldAndPersist(save, index_ok, crawled_ok)

\* The track of the current rom has ended, if it had a scraper to run with.
TrackEnded(n, status) == n > 0 => status \notin {"Pending", "Searching"}

\* C13: while cancellation is pending inside the processing of a rom, the
\* processing can go on; the cancelled flag is raised only at the loop head and
\* the rom index no longer advances once cancellation is requested; and when
\* the loop is reached again after a request made inside a rom, both tracks of
\* that rom have ended, the rom is folded into the counters and (file errors
\* aside) its record and log lines are written.
C13_CancelObservedAtItemBoundary ==
    /\ []((cancel_token /\ pc \in ItemPcs) => ENABLED ItemStep)
    /\ []((cancel_at = "item" /\ pc \in {"loop", "finish", "done"}) =>
            /\ TrackEnded(config.n_meta, game_data.metadata.status)
            /\ TrackEnded(config.n_guides, game_data.guides.status)
            /\ statuses[rom] # NoStatus
            /\ progress.completed = rom
            /\ io_faults = 0 =>
                  /\ games[rom] = Some(game_data)
                  /\ crawled[Len(crawled)] = rom
                  /\ games_txt[Len(games_txt)] = rom)
    /\ [][/\ cancelled' # cancelled => (pc = "loop" /\ cancel_token /\ pc' = "finish")
          /\ (cancel_token /\ cancel_token') => rom' = rom
          /\ (cancel_token /\ pc \in ItemPcs) => (pc' \in ItemPcs \cup {"loop"} /\ ~cancelled')
         ]_vars

C13_Witness ==
    /\ pc = "done" /\ cancelled /\ cancel_at = "item"
    /\ n_roms = 2 /\ rom = 1
    /\ config.n_meta = 1 /\ config.n_guides = 1
    /\ game_data.metadata.status = "Success"
    /\ game_data.guides.status = "Success"
    /\ progress.completed = 1
    /\ games[1] # None /\ games[2] = None

\* scrape() awaits the answer of a provider request.
InFlightPcs == {"meta_search", "meta_download", "guides_search", "guide_download"}

\* The lines of a log are in scan order.
InScanOrder(file) == \A i, j \in 1..Len(file) : i < j => file[i] < file[j]

\* Both tracks of the current rom have returned to the loop body.
AfterTracks == pc = "after_guides" \/ (pc = "after_metadata" /\ config.n_guides = 0)

\* C14: while a rom is processed every rom before it is folded into the
\* counters and no rom from it on is folded or has its record touched; the
\* logs list the roms in scan order; a request is issued for the current rom
\* only, one at a time and never while another one is awaited; the rom index
\* advances by one, at the loop head, after the rom was folded; records are
\* written for the current rom only, after its tracks.
C14_OneItemAtATimeInScanOrder ==
    /\ [](pc \in ItemPcs =>
            /\ rom \in 1..n_roms
            /\ progress.completed = rom - 1
            /\ FoldedRoms = 1..(rom - 1)
            /\ \A r \in rom..n_roms : games[r] = before_run.games[r])
    /\ [](run = 1 => InScanOrder(crawled) /\ InScanOrder(games_txt))
    /\ [][/\ (calls' # calls /\ calls' # <<>>) =>
                /\ rom' = rom
                /\ Len(calls') = Len(calls) + 1
                /\ pc' \in InFlightPcs
                /\ pc \in InFlightPcs => (pc = "meta_search" /\ pc' = "meta_download")
          /\ (rom' # rom /\ pc \notin {"idle", "done", "error"}) =>
                /\ rom' = rom + 1
                /\ pc = "loop" /\ pc' = "metadata"
                /\ progress.completed = rom
                /\ FoldedRoms = 1..rom
          /\ \A r \in Roms : games'[r] # games[r] => (r = rom /\ AfterTracks)
          /\ (progress'.completed # progress.completed /\ pc \in ItemPcs) =>
                (progress'.completed = rom /\ AfterTracks)
         ]_vars

C14_Witness ==
    /\ pc = "meta_search" /\ rom = 2 /\ Len(calls) = 1
    /\ statuses[1] # NoStatus /\ progress.completed = 1
    /\ games[1] # None /\ games[2] = None
    /\ crawled = <<1>>

----------------------------------------------------------------------------
(* Two scrape() calls from the same directory contents *)

\* The key under which the replayed environment keeps the cancellation request
\* made while rom r was the current one.
CancelRequest(r) == <<"cancel", 0, r, 0>>
CancelRequests == {CancelRequest(r) : r \in 0..Len(statuses)}

\* token.cancel() during the first call, at a loop head or while a search or a
\* guide download is awaited; during the second call, at the point where the
\* first call received it.
CancelAtPoint ==
    /\ pc \in {"loop", "meta_search", "guide_download"}
    /\ ~cancel_token
    /\ run = 1 \/ CancelRequest(rom) \in DOMAIN memo
    /\ Answers(CancelRequest(rom), <<pc, 0>>)
    /\ cancel_token' = TRUE
    /\ cancel_at' = IF pc \in {"loop", "finish"} THEN pc ELSE "item"
    /\ UNCHANGED <<mergeVars, cacheVars, backoffVars, pc, run, config, n_roms, replay, before_run,
                   diskVars, loopVars, game_data, trackVars, last_update, histVars>>

\* The directory is brought back to its contents before the first call and
\* scrape() is called again with the same scrapers and configuration; before_run
\* keeps those contents, with the statuses and the summary of the first call.
ScrapeTwin ==
    /\ pc = "done"
    /\ run = 1
    /\ games' = before_run.games
    /\ image_exists' = before_run.images
    /\ guides_files' = before_run.guides
    /\ games_txt' = before_run.games_txt
    /\ crawled' = before_run.crawled
    /\ io_faults' = io_faults
    /\ run' = run + 1
    /\ before_run' = [before_run EXCEPT !.statuses = statuses, !.progress = progress]
    /\ cancel_token' = FALSE
    /\ cancel_at' = ""
    /\ backoff' = EmptyScrapers
    /\ waits' = [n \in ScraperNames |-> <<>>]
    /\ rate_limited' = {}
    /\ progress' = NewProgress(n_roms)
    /\ last_update' = send_progress(progress', "Found N ROMs to process", None)
    /\ cancelled' = FALSE
    /\ rom' = 0
    /\ game_data' = NewGameData(0)
    /\ result' = "none"
    /\ statuses' = [r \in Roms |-> NoStatus]
    /\ calls' = <<>>
    /\ search_ok' = {}
    /\ last_call' = NoCall
    /\ pc' = "loop"
    /\ UNCHANGED <<idleVars, config, n_roms, replay, trackVars>>

\* The directory before the first call: every rom may have its image, a guide
\* and its record from an earlier scrape; the answers of the scrapers are kept
\* in memo and replayed to the second call; two roms, at most one scraper of
\* each kind, one guide path per search, file operations succeed.
TwinInit ==
    /\ MergeIdle
    /\ backoff = EmptyScrapers
    /\ waits = [n \in ScraperNames |-> <<>>]
    /\ n_roms = 2
    /\ replay = TRUE
    /\ RunIdle
    /\ CacheIdle
    /\ \E image \in BOOLEAN, guides \in {{}, {1}}, stored \in BOOLEAN :
          /\ image_exists = [r \in Roms |-> r <= n_roms /\ image]
          /\ guides_files = [r \in Roms |-> IF r <= n_roms THEN guides ELSE {}]
          /\ games = [r \in Roms |->
                         IF r <= n_roms /\ stored THEN Some(StoredRecord(r)) ELSE None]
    /\ games_txt = <<>>
    /\ crawled = <<>>

TwinNext ==
    \/ \E n_meta \in 0..1, n_guides \in 0..1, skip_cache \in BOOLEAN :
          StartScrape(n_meta, n_guides, skip_cache)
    \/ ScrapeTwin
    \/ CancelAtPoint
    \/ NextRom
    \/ MetadataBegin
    \/ MetaSearchCall
    \/ MetaAllFailed
    \/ \E outcome \in {"found_image", "found_no_image"} \cup {"GameNotFound", "RateLimitExceeded"} :
          MetaSearchReturn(outcome, TRUE)
    \/ MetaBackoffWake
    \/ \E outcome \in {"ok", "err"} : MetaDownloadReturn(outcome)
    \/ GuidesBegin
    \/ GuidesSearchCall
    \/ GuidesLoopEnd
    \/ \E outcome \in {"guides", "no_guides"} \cup {"GameNotFound", "RateLimitExceeded"} :
          GuidesSearchReturn(outcome, 1, TRUE)
    \/ GuidesBackoffWake
    \/ GuideDownloadCall
    \/ \E outcome \in {"ok", "err"} : GuideDownloadReturn(outcome)
    \/ GuidesFound
    \/ FoldAndPersist("ok", TRUE, TRUE)
    \/ Finish

SpecTwin == TwinInit /\ [][TwinNext]_vars

\* The second call has ended and received the cancellation request of the first
\* call, if there was one.
TwinEnded ==
    /\ run = 2 /\ pc = "done"
    /\ cancel_token = (\E q \in CancelRequests : q \in DOMAIN memo)

----------------------------------------------------------------------------
(* One scrape() call whose scrapers fail in every way *)

\* One scrape() call over a fresh directory with up to MaxRoms roms that is not
\* cancelled; at most one scraper of each kind, no forced refresh, one guide
\* path per search; searches fail with every ScraperError, downloads and file
\* operations fail too.
ErrorsInit ==
    /\ MergeIdle
    /\ backoff = EmptyScrapers
    /\ waits = [n \in ScraperNames |-> <<>>]
    /\ n_roms \in 1..MaxRoms
    /\ replay = FALSE
    /\ RunIdle
    /\ CacheIdle
    /\ FreshDirectory

ErrorsNext ==
    \/ \E n_meta \in 0..1, n_guides \in 0..1 : StartScrape(n_meta, n_guides, FALSE)
    \/ NextRom
    \/ MetadataBegin
    \/ MetaSearchCall
    \/ MetaAllFailed
    \/ \E outcome \in SearchOutcome, dir_ok \in BOOLEAN : MetaSearchReturn(outcome, dir_ok)
    \/ MetaBackoffWake
    \/ \E outcome \in DownloadOutcome : MetaDownloadReturn(outcome)
    \/ GuidesBegin
    \/ GuidesSearchCall
    \/ GuidesLoopEnd
    \/ \E outcome \in GuidesOutcome, dir_ok \in BOOLEAN : GuidesSearchReturn(outcome, 1, dir_ok)
    \/ GuidesBackoffWake
    \/ GuideDownloadCall
    \/ \E outcome \in DownloadOutcome : GuideDownloadReturn(outcome)
    \/ GuidesFound
    \/ \E save \in SaveOutcome, index_ok \in BOOLEAN, crawled_ok \in BOOLEAN :
          FoldAndPersist(save, index_ok, crawled_ok)
    \/ Finish

SpecErrors == ErrorsInit /\ [][ErrorsNext]_vars

\* scrape() has been called and has not returned.
Running == pc \notin {"idle", "done", "error"}

\* C16: in a call that is not cancelled, whatever the scrapers answer, scrape()
\* can always take its next step until it returns; a request that fails leaves
\* the call inside the same rom; Err is never returned; and the call returns
\* Ok with every rom folded and counted (completed = total), the three
\* counters adding up to the total.
C16_ProviderErrorsNeverAbort ==
    /\ [](Running => ENABLED ErrorsNext)
    /\ [](result # "Err")
    /\ [](pc = "done" =>
            /\ result = "Ok"
            /\ progress.total = n_roms
            /\ progress.completed = n_roms
            /\ FoldedRoms = 1..n_roms
            /\ progress.success_count + progress.fail_count + progress.skip_count = n_roms)
    /\ [][(pc \in InFlightPcs /\ pc' # pc /\ ~last_call'.ok) =>
             (rom' = rom /\ pc' \in ItemPcs /\ result' = "none")]_vars

C16_Witness ==
    /\ pc = "done" /\ n_roms = 2
    /\ config.n_meta = 1 /\ config.n_guides = 1
    /\ statuses[1] = "Failed" /\ statuses[2] = "Failed"
    /\ progress.fail_count = 2 /\ progress.completed = 2
    /\ last_call.answer = "AuthenticationFailed"

\* The files the fold step of the current rom has written.
Written ==
    (IF games'[rom] = Some(game_data) THEN 1 ELSE 0)
    + (IF games_txt' = Append(games_txt, rom) THEN 1 ELSE 0)
    + (IF crawled' = Append(crawled, rom) THEN 1 ELSE 0)

\* C17: the step that folds a rom and in which a write of its record, its index
\* line or its visited-log line fails still counts the rom, gives it its status,
\* performs the other writes and returns to the loop head without ending or
\* cancelling the call; and at the loop head, with roms left and no cancellation
\* requested, the next rom can be taken.
C17_PersistFailureDoesNotStopLoop ==
    /\ [][(AfterTracks /\ pc' # pc /\ io_faults' > io_faults) =>
             /\ progress'.completed = progress.completed + 1
             /\ progress'.completed = rom
             /\ statuses'[rom] = item_status(config, game_data)
             /\ Written + (io_faults' - io_faults) = 3
             /\ pc' = "loop" /\ rom' = rom
             /\ result' = "none" /\ ~cancelled']_vars
    /\ []((pc = "loop" /\ rom < n_roms /\ ~cancel_token) =>
             ENABLED (NextRom /\ rom' = rom + 1 /\ pc' = "metadata"))

C17_Witness ==
    /\ pc \in InFlightPcs /\ rom = 2 /\ ~cancel_token
    /\ io_faults = 1
    /\ games[1] = None /\ games_txt = <<1>> /\ crawled = <<1>>
    /\ statuses[1] # NoStatus /\ progress.completed = 1

\* C18: a call that ended in the setup error (no scraper configured, or the
\* scan failed) returned Err straight from the start: no request was made, no
\* record or log line was written, no counter was raised, no rom was taken and
\* scrape() sent no progress update.
C18_SetupFailureBeforeAnyItem ==
    /\ [](pc = "error" =>
            /\ result = "Err"
            /\ calls = <<>> /\ last_call = NoCall /\ memo = NoMemo
            /\ games = [r \in Roms |-> None] /\ games_txt = <<>> /\ crawled = <<>>
            /\ image_exists = [r \in Roms |-> FALSE]
            /\ guides_files = [r \in Roms |-> {}]
            /\ progress = NewProgress(0)
            /\ statuses = [r \in Roms |-> NoStatus]
            /\ rom = 0
            /\ last_update = NoUpdate)
    /\ [][(pc' = "error" /\ pc # "error") =>
             /\ pc = "idle"
             /\ (config'.n_meta + config'.n_guides = 0) = (run' = run)]_vars

C18_Witness ==
    /\ pc = "error" /\ result = "Err"
    /\ config.n_meta = 0 /\ config.n_guides = 0
    /\ n_roms = 2 /\ calls = <<>> /\ progress.completed = 0

\* The messages of the summary update.
SummaryMessages == {"Scraping cancelled!", "Scraping complete!"}

\* C19: the summary update is sent by the step that returns from scrape() and
\* by no other, so once per call and as its last update; it carries the
\* returned counters, no current rom and no game update, and says cancelled or
\* complete as the loop ended; the update before it is "Scraping cancelled by
\* user" exactly when the loop was stopped by cancellation; after the return no
\* update follows.
C19_OneFinalSummaryLast ==
    /\ [](last_update.message \in SummaryMessages <=> pc = "done")
    /\ [](pc = "done" =>
            /\ Returned # None
            /\ last_update = send_progress(Returned[1],
                   IF cancelled THEN "Scraping cancelled!" ELSE "Scraping complete!", None)
            /\ last_update.current_rom = None
            /\ last_update.game_update = None
            /\ last_update.completed = Cardinality(FoldedRoms)
            /\ last_update.total = n_roms)
    /\ [][(pc = "finish" /\ pc' = "done") =>
             (cancelled <=> last_update.message = "Scraping cancelled by user")]_vars
    /\ [][pc = "done" => last_update' = last_update]_vars

C19_Witness ==
    /\ pc = "done" /\ cancelled /\ n_roms = 2
    /\ last_update.message = "Scraping cancelled!"
    /\ last_update.completed = 1 /\ last_update.success_count = 1
    /\ last_update.current_rom = None

----------------------------------------------------------------------------
(* ScrapeCache driven through its mark, clear and has_*_failed methods *)

CacheInit ==
    /\ MergeIdle
    /\ backoff = EmptyScrapers
    /\ waits = [n \in ScraperNames |-> <<>>]
    /\ n_roms = 0
    /\ replay = FALSE
    /\ RunIdle
    /\ CacheIdle
    /\ FreshDirectory

CacheNext ==
    \E console \in CacheConsoles, rom_name \in CacheRoms :
        \/ MarkNotFound(metadata_dir, console, rom_name)
        \/ MarkNotFound(guides_dir, console, rom_name)
        \/ ClearFailed(metadata_dir, console, rom_name)
        \/ ClearFailed(guides_dir, console, rom_name)

SpecCache == CacheInit /\ [][CacheNext]_vars

\* has_metadata_failed or has_guides_failed, by the category of the key.
has_failed(key) ==
    IF key[1] = metadata_dir THEN has_metadata_failed(markers, key[2], key[3])
    ELSE has_guides_failed(markers, key[2], key[3])

Alike(n1, n2) ==
    /\ Len(n1) = Len(n2)
    /\ \A i \in 1..Len(n1) : n1[i] = n2[i] \/ {n1[i], n2[i]} \subseteq ReservedChars \cup {"_"}

\* Two keys of one category whose consoles and whose rom names are alike.
AlikeKeys(k1, k2) == k1[1] = k2[1] /\ Alike(k1[2], k2[2]) /\ Alike(k1[3], k2[3])

----------------------------------------------------------------------------
(* ScrapeCache::add_result called again and again on an empty results store *)

ResultsNext == \E game_result \in CacheResults : AddResult(game_result)

SpecResults == CacheInit /\ [][ResultsNext]_vars

\* C21: after n add_result calls on an empty store load_results returns the
\* min(n, 10) results added last, newest first, and never more than 10.
C21_KeepsTenNewestFirst ==
    /\ Len(load_results(results_file)) = (IF Len(added) < 10 THEN Len(added) ELSE 10)
    /\ load_results(results_file) = SubSeq(added, 1, Len(load_results(results_file)))
    /\ Len(load_results(results_file)) <= 10

C21_Witness ==
    /\ Len(added) = 12
    /\ added[11] = 1 /\ added[12] = 1
    /\ load_results(results_file) = <<2, 2, 2, 2, 2, 2, 2, 2, 2, 2>>

----------------------------------------------------------------------------
(* ScrapeCache filled and cleared *)

\* Most add_result calls in the clearing scenario.
MaxClearAdds == 2

ClearNext ==
    \/ \E console \in CacheConsoles, rom_name \in CacheRoms :
          \/ MarkNotFound(metadata_dir, console, rom_name)
          \/ MarkNotFound(guides_dir, console, rom_name)
    \/ \E game_result \in CacheResults : Len(added) < MaxClearAdds /\ AddResult(game_result)
    \/ \E p \in CacheProgress : SaveProgress(p)
    \/ ClearSessionCache
    \/ ClearAll
    \/ CacheInitDirs

SpecClear == CacheInit /\ [][ClearNext]_vars

\* C22: after clear_session_cache load_progress is None and load_results is
\* empty, and the call leaves every marker file and the answer of
\* has_metadata_failed and has_guides_failed for every key as they were; after
\* clear_all no marker, no progress and no result remains.
C22_ClearSessionKeepsMarkersClearAllRemovesAll ==
    /\ [](cache_op = "clear_session_cache" =>
            (load_progress(progress_file) = None /\ load_results(results_file) = <<>>))
    /\ [][cache_op' = "clear_session_cache" =>
            /\ markers' = markers
            /\ \A k \in CacheKeys :
                  /\ has_metadata_failed(markers', k[2], k[3]) = has_metadata_failed(markers, k[2], k[3])
                  /\ has_guides_failed(markers', k[2], k[3]) = has_guides_failed(markers, k[2], k[3])]_vars
    /\ [](cache_op = "clear_all" =>
            /\ markers = {}
            /\ \A k \in CacheKeys : ~has_failed(k)
            /\ load_progress(progress_file) = None
            /\ load_results(results_file) = <<>>
            /\ ~cache_dir)

C22_Witness ==
    /\ cache_op = "clear_session_cache"
    /\ Len(added) = 2
    /\ has_metadata_failed(markers, <<"N", "E", "S">>, <<"Z">>)
    /\ has_guides_failed(markers, <<"S", "N", "E", "S">>, <<"Z">>)
    /\ load_results(results_file) = <<>>

\* has_metadata_failed or has_guides_failed over the given marker files.
HasFailedIn(files, key) ==
    IF key[1] = metadata_dir THEN has_metadata_failed(files, key[2], key[3])
    ELSE has_guides_failed(files, key[2], key[3])

----------------------------------------------------------------------------
(* ScrapeCache written to while filesystem writes may fail *)

\* The cache is driven with two roms of one console and up to MaxClearAdds
\* results; every write may succeed or fail.

FaultsNext ==
    \/ \E console \in {<<"N", "E", "S">>}, rom_name \in {<<"Z">>, <<"a", ":", "b">>} :
          \/ MarkNotFound(metadata_dir, console, rom_name)
          \/ MarkNotFound(guides_dir, console, rom_name)
          \/ MarkNotFoundFails(metadata_dir, console, rom_name)
          \/ MarkNotFoundFails(guides_dir, console, rom_name)
          \/ ClearFailed(metadata_dir, console, rom_name)
          \/ ClearFailed(guides_dir, console, rom_name)
          \/ ClearFailedFails(metadata_dir, console, rom_name)
          \/ ClearFailedFails(guides_dir, console, rom_name)
    \/ \E game_result \in CacheResults :
          \/ Len(added) < MaxClearAdds /\ AddResult(game_result)
          \/ \E outcome \in WriteFailure : AddResultFails(game_result, outcome)
    \/ \E p \in CacheProgress :
          \/ SaveProgress(p)
          \/ \E outcome \in WriteFailure : SaveProgressFails(p, outcome)

SpecCacheFaults == CacheInit /\ [][FaultsNext]_vars

\* The answers of has_*_failed, load_progress and load_results are left as they were.
CacheAnswersUnchanged ==
    /\ \A key \in CacheKeys : HasFailedIn(markers', key) = HasFailedIn(markers, key)
    /\ load_progress(progress_file') = load_progress(progress_file)
    /\ load_results(results_file') = load_results(results_file)

\* What holds of the marker half of C24: a mark or a clear whose filesystem call
\* fails returns nothing and leaves every answer as it was.
MarkerWritesBestEffort ==
    [][(cache_fault' /\ cache_op' \in {"mark_not_found", "clear_failed"}) =>
          (cache_ret' = "unit" /\ CacheAnswersUnchanged)]_vars

\* C24: a cache write (mark, clear, save_progress, add_result) whose filesystem
\* call fails returns no error, and leaves the answers of has_failed,
\* load_progress and load_results as they were before it.
C24_CacheWritesAreBestEffort ==
    [][cache_fault' => (cache_ret' # "Err" /\ CacheAnswersUnchanged)]_vars

----------------------------------------------------------------------------
(* Two scrape() calls, the second with a subscriber that falls behind or leaves *)

\* A plausible slip: the update is sent as on a bounded channel, waiting until
\* the subscriber has taken the previous one.
send_blocks_unless_connected(sub) == sub # "connected"

\* Whether `let _ = progress_tx.send(..)` makes scrape() wait: the sender is an
\* UnboundedSender, whose send is not async and returns at once, with Ok while
\* the receiver lives (the update is queued however slowly it is read) and with
\* an Err, dropped by `let _`, once the receiver is gone.
send_blocks(sub) == FALSE

\* A step of scrape() between two of its sends.
Publishing(Step) == ~send_blocks(subscriber) /\ Step

\* The relay task of run_scraping stops reading (its save_state takes long) or
\* ends and drops progress_rx, at any moment of the second call before the
\* final summary is sent.
SubscriberChanges ==
    /\ run = 2
    /\ pc \notin {"finish", "done"}
    /\ \/ subscriber = "connected" /\ subscriber' \in {"slow", "disconnected"}
       \/ subscriber = "slow" /\ subscriber' \in {"connected", "disconnected"}
    /\ UNCHANGED <<mergeVars, storeVars, backoffVars, coreVars, appVars, apiVars>>

\* The directory is brought back to its contents before the first call and
\* scrape() is called again with the same scrapers and configuration;
\* before_run then keeps what the first call left: files, statuses, summary.
ScrapeSecondCall ==
    /\ pc = "done"
    /\ run = 1
    /\ games' = before_run.games
    /\ image_exists' = before_run.images
    /\ guides_files' = before_run.guides
    /\ games_txt' = before_run.games_txt
    /\ crawled' = before_run.crawled
    /\ io_faults' = io_faults
    /\ run' = run + 1
    /\ before_run' = [games |-> games, statuses |-> statuses,
                      images |-> image_exists, guides |-> guides_files,
                      games_txt |-> games_txt, crawled |-> crawled, progress |-> progress]
    /\ cancel_token' = FALSE
    /\ cancel_at' = ""
    /\ backoff' = EmptyScrapers
    /\ waits' = [n \in ScraperNames |-> <<>>]
    /\ rate_limited' = {}
    /\ progress' = NewProgress(n_roms)
    /\ last_update' = send_progress(progress', "Found N ROMs to process", None)
    /\ cancelled' = FALSE
    /\ rom' = 0
    /\ game_data' = NewGameData(0)
    /\ result' = "none"
    /\ statuses' = [r \in Roms |-> NoStatus]
    /\ calls' = <<>>
    /\ search_ok' = {}
    /\ last_call' = NoCall
    /\ pc' = "loop"
    /\ UNCHANGED <<idleVars, config, n_roms, replay, trackVars>>

\* The steps of scrape() once it has started, each of them publishing.
SinkRun ==
    \/ Publishing(NextRom)
    \/ Publishing(MetadataBegin)
    \/ Publishing(MetaSearchCall)
    \/ Publishing(MetaAllFailed)
    \/ \E outcome \in {"found_image", "found_no_image"} \cup {"GameNotFound", "RateLimitExceeded"} :
          Publishing(MetaSearchReturn(outcome, TRUE))
    \/ Publishing(MetaBackoffWake)
    \/ \E outcome \in {"ok", "err"} : Publishing(MetaDownloadReturn(outcome))
    \/ Publishing(GuidesBegin)
    \/ Publishing(GuidesSearchCall)
    \/ Publishing(GuidesLoopEnd)
    \/ \E outcome \in {"guides", "no_guides"} \cup {"GameNotFound", "RateLimitExceeded"} :
          Publishing(GuidesSearchReturn(outcome, 1, TRUE))
    \/ Publishing(GuidesBackoffWake)
    \/ Publishing(GuideDownloadCall)
    \/ \E outcome \in {"ok", "err"} : Publishing(GuideDownloadReturn(outcome))
    \/ Publishing(GuidesFound)
    \/ Publishing(FoldAndPersist("ok", TRUE, TRUE))
    \/ Publishing(Finish)

SinkNext ==
    \/ \E n_meta \in 0..1, n_guides \in 0..1, skip_cache \in BOOLEAN :
          StartScrape(n_meta, n_guides, skip_cache)
    \/ ScrapeSecondCall
    \/ SubscriberChanges
    \/ SinkRun

\* The directory and the replayed scrapers of TwinInit; the subscriber of the
\* first call stays connected.
SpecSink == TwinInit /\ [][SinkNext]_vars

\* The second call has returned.
SecondEnded == run = 2 /\ pc = "done"

\* What a call leaves on disk.
Persisted == <<games, image_exists, guides_files, games_txt, crawled>>

\* C25: whatever the subscriber does during the second call (stays connected,
\* stops reading, goes away), scrape() can always take its next step, and when
\* it has returned the per-rom statuses, the files and records on disk and the
\* final counts are those of the first call, whose subscriber stayed connected.
C25_SubscriberNeverFeedsBack ==
    /\ [](Running => ENABLED SinkRun)
    /\ [](SecondEnded =>
            /\ statuses = before_run.statuses
            /\ progress = before_run.progress
            /\ Persisted = <<before_run.games, before_run.images, before_run.guides,
                             before_run.games_txt, before_run.crawled>>)

C25_Witness ==
    /\ SecondEnded
    /\ subscriber = "disconnected"
    /\ statuses[1] = "Success" /\ statuses[2] = "Failed"
    /\ progress.success_count = 1 /\ progress.fail_count = 1
    /\ games[1] # None /\ crawled = <<1, 2>>

----------------------------------------------------------------------------
(* server/api/scrape.rs: start_scraping, the task it spawns, the relay task *)

\* A plausible slip: the flag is set without being looked at.
admits_always(flag) == TRUE

\* `if *scraping { return ...'Scraping already in progress' }`
admits(flag) == ~flag

\* A plausible slip: the guard of the `scraping` mutex outlives the block of the
\* spawned task.
ScrapingLocked_guard_kept ==
    \E i \in Requests : task[i] \in {"locked", "token_cleared", "ended"}

\* The guard of the `scraping` mutex is held: the spawned task takes it before
\* `*scraping = false` and keeps it to the end of its block.
ScrapingLocked == \E i \in Requests : task[i] \in {"locked", "token_cleared"}

\* A plausible slip: the flag is cleared in the Ok arm only.
flag_after_run_ok_only(outcome) == outcome # "Ok"

\* The spawned task: `*scraping = false`, whatever run_scraping returned.
flag_after_run(outcome) == FALSE

\* state.rs save_state: the snapshot is written to .collie/state.json.
save_state(state) == Some(state)

\* state.rs load_state: the default when there is no file, else the file's
\* snapshot with scraping = false.
load_state(file) ==
    IF file = None THEN DefaultState ELSE [file[1] EXCEPT !.scraping = FALSE]

\* Requests are numbered in their order of arrival.
ArrivedBefore(f, k) == \A j \in 1..(k - 1) : f[j] # "none"

\* start_scraping up to drop(scraping): the flag is read and set under its mutex.
StartRequest(i) ==
    /\ handler[i] = "none"
    /\ ArrivedBefore(handler, i)
    /\ ~ScrapingLocked
    /\ IF admits(scraping)
       THEN /\ scraping' = TRUE
            /\ handler' = [handler EXCEPT ![i] = "admitted"]
       ELSE /\ scraping' = scraping
            /\ handler' = [handler EXCEPT ![i] = "rejected"]
    /\ UNCHANGED <<mergeVars, storeVars, backoffVars, coreVars, subscriber, apiVars,
                   state_cancel_token, roms_path, scraping_state, task>>

\* start_scraping: AppState::roms_path takes the path of the request; with
\* skip_cache the cache directory, the stored records, games.txt, state.json
\* and the crawled file are removed.
UpdateRomsPath(i, skip_cache) ==
    /\ handler[i] = "admitted"
    /\ roms_path' = i
    /\ handler' = [handler EXCEPT ![i] = "path_set"]
    /\ IF skip_cache
       THEN /\ markers' = {}
            /\ last_op' = [k \in CacheKeys |-> "none"]
            /\ progress_file' = NoFile
            /\ results_file' = NoFile
            /\ cache_dir' = FALSE
            /\ games' = [r \in Roms |-> None]
            /\ games_txt' = <<>>
            /\ state_file' = None
            /\ crawled' = <<>>
       ELSE UNCHANGED <<markers, last_op, progress_file, results_file, cache_dir,
                        games, games_txt, state_file, crawled>>
    /\ UNCHANGED <<mergeVars, backoffVars, added, cache_op, cache_ret, cache_fault,
                   pc, run, config, n_roms, replay, memo, before_run, cancel_token,
                   cancel_at, io_faults, image_exists, guides_files, loopVars, game_data,
                   trackVars, last_update, histVars, subscriber,
                   scraping, state_cancel_token, scraping_state, task,
                   token_cancelled, run_result, progress_rx, state_lock, stop, reader>>

\* start_scraping: a new CancellationToken is stored in AppState::cancel_token.
StoreCancelToken(i) ==
    /\ handler[i] = "path_set"
    /\ state_cancel_token' = <<i>>
    /\ handler' = [handler EXCEPT ![i] = "token_stored"]
    /\ UNCHANGED <<mergeVars, storeVars, backoffVars, coreVars, subscriber, apiVars,
                   scraping, roms_path, scraping_state, task>>

\* start_scraping: ScrapingState { scraping: true, ..Default::default() }
ResetScrapingState(i) ==
    /\ handler[i] = "token_stored"
    /\ state_lock = None
    /\ scraping_state' = [DefaultState EXCEPT !.scraping = TRUE]
    /\ handler' = [handler EXCEPT ![i] = "state_reset"]
    /\ UNCHANGED <<mergeVars, storeVars, backoffVars, coreVars, subscriber, apiVars,
                   scraping, state_cancel_token, roms_path, task>>

\* start_scraping: tokio::spawn of the task that awaits run_scraping; the
\* handler answers "Scraping started".
SpawnTask(i) ==
    /\ handler[i] = "state_reset"
    /\ task' = [task EXCEPT ![i] = "running"]
    /\ handler' = [handler EXCEPT ![i] = "started"]
    /\ UNCHANGED <<mergeVars, storeVars, backoffVars, coreVars, subscriber, apiVars,
                   scraping, state_cancel_token, roms_path, scraping_state>>

\* The ProgressUpdate scrape() sends: its counters and its message.
Update(completed, message) == [completed |-> completed, message |-> message]

\* scrape() of run i at its loop head: the token is not cancelled, the next rom
\* is started and its 'Processing' update goes into the channel.
PublishEvent(i) ==
    /\ task[i] = "running"
    /\ i \notin token_cancelled
    /\ progress_rx[i].sent < MaxRelayed
    /\ progress_rx' = [progress_rx EXCEPT ![i] =
          [@ EXCEPT !.queue = Append(@, Update(progress_rx[i].sent, "Processing")),
                    !.sent = @ + 1]]
    /\ UNCHANGED <<mergeVars, storeVars, backoffVars, coreVars, subscriber, appVars,
                   token_cancelled, run_result, state_lock, state_file, stop, reader>>

\* run_scraping returns to the spawned task. Err: authenticate failed, no
\* scraper is configured or scrape() could not scan the directory, all before
\* the first update. Ok: scrape() has sent its final summary, after 'Scraping
\* cancelled by user' when its loop head saw the token cancelled. The sender is
\* dropped either way.
RunScrapingReturns(i, outcome) ==
    /\ task[i] = "running"
    /\ outcome = "Err" => progress_rx[i].sent = 0
    /\ outcome = "cancelled" => i \in token_cancelled
    /\ task' = [task EXCEPT ![i] = "returned"]
    /\ run_result' = [run_result EXCEPT ![i] = IF outcome = "Err" THEN "Err" ELSE "Ok"]
    /\ LET n == progress_rx[i].sent
           sent == CASE outcome = "Err" -> <<>>
                     [] outcome = "complete" -> <<Update(n, "Scraping complete!")>>
                     [] outcome = "cancelled" ->
                           <<Update(n, "Scraping cancelled by user"),
                             Update(n, "Scraping cancelled!")>>
       IN  progress_rx' = [progress_rx EXCEPT ![i] =
              [@ EXCEPT !.queue = @ \o sent, !.closed = TRUE]]
    /\ UNCHANGED <<mergeVars, storeVars, backoffVars, coreVars, subscriber, scraping,
                   state_cancel_token, roms_path, scraping_state, handler,
                   token_cancelled, state_lock, state_file, stop, reader>>

\* The relay task of run_scraping takes the oldest update from the channel and,
\* when try_lock succeeds, writes its counters and message into the snapshot and
\* the snapshot into state.json; when the guard is held the update is only
\* broadcast. The task is detached and may still be draining the channel after
\* its run_scraping has returned.
RelayUpdate(i) ==
    /\ progress_rx[i].queue # <<>>
    /\ LET update == Head(progress_rx[i].queue)
       IN  IF state_lock = None
           THEN /\ scraping_state' = [scraping_state EXCEPT
                                         !.progress = update.completed,
                                         !.current_message = update.message]
                /\ state_file' = save_state(scraping_state')
           ELSE UNCHANGED <<scraping_state, state_file>>
    /\ progress_rx' = [progress_rx EXCEPT ![i] = [@ EXCEPT !.queue = Tail(@)]]
    /\ UNCHANGED <<mergeVars, storeVars, backoffVars, coreVars, subscriber,
                   scraping, state_cancel_token, roms_path, handler, task,
                   token_cancelled, run_result, state_lock, stop, reader>>

\* The spawned task: `let mut scraping = ...lock().await; *scraping = false;`
TaskClearsFlag(i) ==
    /\ task[i] = "returned"
    /\ ~ScrapingLocked
    /\ scraping' = flag_after_run(run_result[i])
    /\ task' = [task EXCEPT ![i] = "locked"]
    /\ UNCHANGED <<mergeVars, storeVars, backoffVars, coreVars, subscriber, apiVars,
                   state_cancel_token, roms_path, scraping_state, handler>>

\* The spawned task: `*state_clone.cancel_token.lock().await = None;`
TaskClearsToken(i) ==
    /\ task[i] = "locked"
    /\ state_cancel_token' = <<>>
    /\ task' = [task EXCEPT ![i] = "token_cleared"]
    /\ UNCHANGED <<mergeVars, storeVars, backoffVars, coreVars, subscriber, apiVars,
                   scraping, roms_path, scraping_state, handler>>

\* The spawned task: `scraping_state.scraping = false`, then the end of the
\* block, where the guard of the `scraping` mutex is dropped.
TaskEnds(i) ==
    /\ task[i] = "token_cleared"
    /\ state_lock = None
    /\ scraping_state' = [scraping_state EXCEPT !.scraping = FALSE]
    /\ task' = [task EXCEPT ![i] = "ended"]
    /\ UNCHANGED <<mergeVars, storeVars, backoffVars, coreVars, subscriber, apiVars,
                   scraping, state_cancel_token, roms_path, handler>>

\* stop_scraping up to drop(scraping): the flag is read under its mutex; when
\* it is not set the handler answers 'No scraping in progress'.
StopRequest(s) ==
    /\ stop[s] = "none"
    /\ ArrivedBefore(stop, s)
    /\ ~ScrapingLocked
    /\ stop' = [stop EXCEPT ![s] = IF scraping THEN "checked" ELSE "rejected"]
    /\ UNCHANGED <<mergeVars, storeVars, backoffVars, coreVars, subscriber, appVars,
                   token_cancelled, run_result, progress_rx, state_lock, state_file,
                   reader>>

\* stop_scraping: `if let Some(token) = ...cancel_token.lock().await.as_ref()
\* { token.cancel() }`, then the answer 'Scraping cancelled' in either case.
StopCancels(s) ==
    /\ stop[s] = "checked"
    /\ token_cancelled' = IF state_cancel_token = None
                          THEN token_cancelled
                          ELSE token_cancelled \cup {state_cancel_token[1]}
    /\ stop' = [stop EXCEPT ![s] = "answered"]
    /\ UNCHANGED <<mergeVars, storeVars, backoffVars, coreVars, subscriber, appVars,
                   run_result, progress_rx, state_lock, state_file, reader>>

\* A get_state / save_settings handler has returned: its locals are gone.
Answered(how) == [NoReader EXCEPT !.pc = how]

\* get_state / save_settings: the flag is read under its mutex. get_state goes
\* on to the live snapshot when the flag is set and to state.json when it is
\* not; save_settings answers 'Cannot change settings while scraping is in
\* progress' when it is set. The request names the directory AppState::roms_path
\* already holds.
ReaderArrives(g, kind) ==
    /\ reader[g].pc = "none"
    /\ \A j \in 1..(g - 1) : reader[j].pc # "none"
    /\ ~ScrapingLocked
    /\ reader' = [reader EXCEPT ![g] =
          IF ~scraping THEN [NoReader EXCEPT !.kind = kind, !.pc = "load"]
          ELSE IF kind = "get_state" THEN [NoReader EXCEPT !.kind = kind, !.pc = "live"]
          ELSE Answered("rejected")]
    /\ UNCHANGED <<mergeVars, storeVars, backoffVars, coreVars, subscriber, appVars,
                   token_cancelled, run_result, progress_rx, state_lock, state_file,
                   stop>>

\* get_state, flag set: `let scraping_state = state.scraping_state.lock().await`
ReaderLocks(g) ==
    /\ reader[g].pc = "live"
    /\ state_lock = None
    /\ state_lock' = Some(g)
    /\ reader' = [reader EXCEPT ![g].pc = "locked"]
    /\ UNCHANGED <<mergeVars, storeVars, backoffVars, coreVars, subscriber, appVars,
                   token_cancelled, run_result, progress_rx, state_file, stop>>

\* get_state, flag set: the snapshot is cloned into the answer and the guard is
\* dropped; the snapshot stays as it is.
ReaderAnswers(g) ==
    /\ reader[g].pc = "locked"
    /\ state_lock' = None
    /\ reader' = [reader EXCEPT ![g] = Answered("answered")]
    /\ UNCHANGED <<mergeVars, storeVars, backoffVars, coreVars, subscriber, appVars,
                   token_cancelled, run_result, progress_rx, state_file, stop>>

\* get_state, flag not set, and save_settings: load_state(&roms_path)
ReaderLoads(g) ==
    /\ reader[g].pc = "load"
    /\ reader' = [reader EXCEPT ![g].pc = "loaded", ![g].loaded = load_state(state_file)]
    /\ UNCHANGED <<mergeVars, storeVars, backoffVars, coreVars, subscriber, appVars,
                   token_cancelled, run_result, progress_rx, state_lock, state_file,
                   stop>>

\* get_state, flag not set, and save_settings: the loaded state replaces the
\* snapshot and is the answer; the local goes out of scope.
ReaderStores(g) ==
    /\ reader[g].pc = "loaded"
    /\ state_lock = None
    /\ scraping_state' = reader[g].loaded
    /\ reader' = [reader EXCEPT ![g] = Answered("answered")]
    /\ UNCHANGED <<mergeVars, storeVars, backoffVars, coreVars, subscriber,
                   scraping, state_cancel_token, roms_path, handler, task,
                   token_cancelled, run_result, progress_rx, state_lock, state_file, stop>>

\* A server with a fresh cache and possibly the record of an earlier scrape.
ServerInit ==
    /\ MergeIdle
    /\ backoff = EmptyScrapers
    /\ waits = [n \in ScraperNames |-> <<>>]
    /\ n_roms = 0
    /\ replay = FALSE
    /\ RunIdle
    /\ CacheIdle
    /\ image_exists = [r \in Roms |-> FALSE]
    /\ guides_files = [r \in Roms |-> {}]
    /\ \E stored \in BOOLEAN :
          /\ games = [r \in Roms |-> IF stored /\ r = 1 THEN Some(StoredRecord(r)) ELSE None]
          /\ games_txt = IF stored THEN <<1>> ELSE <<>>
          /\ crawled = IF stored THEN <<1>> ELSE <<>>

\* Start requests, the tasks they spawn, their runs and their relay tasks.
ServerNext ==
    \E i \in Requests :
        \/ StartRequest(i)
        \/ \E skip_cache \in BOOLEAN : UpdateRomsPath(i, skip_cache)
        \/ StoreCancelToken(i)
        \/ ResetScrapingState(i)
        \/ SpawnTask(i)
        \/ \E outcome \in {"complete", "Err"} : RunScrapingReturns(i, outcome)
        \/ RelayUpdate(i)
        \/ TaskClearsFlag(i)
        \/ TaskClearsToken(i)
        \/ TaskEnds(i)

SpecServer == ServerInit /\ [][ServerNext]_vars

\* The run of start request i is being set up, is running or is being wound up.
RunActive(i) ==
    \/ handler[i] \in {"admitted", "path_set", "token_stored", "state_reset"}
    \/ task[i] \in {"running", "returned", "locked", "token_cleared"}

\* C26: under every interleaving of start requests, tasks and relay steps at
\* most one run is active; a start request that arrives while a run is active
\* is answered 'Scraping already in progress' and leaves the scraping flag, the
\* stored cancellation token, the ROM path, the progress snapshot and the tasks
\* as they were; a request is admitted only when no run is active.
C26_AtMostOneActiveRun ==
    /\ [](Cardinality({i \in Requests : RunActive(i)}) <= 1)
    /\ [][\A i \in Requests :
            (handler[i] = "none" /\ handler'[i] # "none") =>
                IF \E j \in Requests : RunActive(j)
                THEN /\ handler'[i] = "rejected"
                     /\ UNCHANGED <<scraping, state_cancel_token, roms_path,
                                    scraping_state, task>>
                ELSE handler'[i] = "admitted"]_vars

C26_Witness ==
    /\ handler[1] = "started" /\ task[1] = "running"
    /\ handler[2] = "rejected" /\ task[2] = "none"
    /\ handler[3] = "none"
    /\ scraping /\ state_cancel_token = <<1>> /\ roms_path = 1
    /\ scraping_state = [DefaultState EXCEPT !.scraping = TRUE]

----------------------------------------------------------------------------
(* The metadata status of a rom *)

\* The metadata status changes within one rom only along Pending -> Skipped,
\* Pending -> Searching, Searching -> Success, Searching -> Failed.
MetadataStatusMoves ==
    LET before == game_data.metadata.status
        after == game_data'.metadata.status
    IN  (rom' = rom /\ run' = run /\ after # before) =>
            \/ before = "Pending" /\ after \in {"Skipped", "Searching"}
            \/ before = "Searching" /\ after \in {"Success", "Failed"}

\* What holds of C27 when a metadata scraper is configured: the rom is folded
\* with a terminal metadata status that was reached along the allowed moves.
MetadataTerminalWithMetadataScrapers ==
    /\ [][MetadataStatusMoves]_vars
    /\ []((AfterTracks /\ config.n_meta > 0) =>
             game_data.metadata.status \in {"Skipped", "Success", "Failed"})

\* C27: when the tracks of a rom are over, whatever scrapers are configured
\* (guides scrapers only included), its metadata status is Skipped, Success or
\* Failed, and it was reached along Pending -> Skipped or Pending -> Searching
\* -> Success / Failed.
C27_MetadataStatusTerminalAtFold ==
    /\ [][MetadataStatusMoves]_vars
    /\ [](AfterTracks => game_data.metadata.status \in {"Skipped", "Success", "Failed"})

----------------------------------------------------------------------------
(* One scrape() call with guides scrapers only *)

\* The record of an earlier scrape that also stored a guide count.
StoredRecordWithGuides(r) ==
    [StoredRecord(r) EXCEPT !.guides = [status |-> "Success", count |-> Some(2)]]

\* One rom whose guides directory is missing/empty or holds one entry, with no
\* stored record, a stored record without a guide count, or one with a guide
\* count that differs from the number of entries; the answers of the guides
\* scrapers are kept in memo.
GuidesInit ==
    /\ MergeIdle
    /\ backoff = EmptyScrapers
    /\ waits = [n \in ScraperNames |-> <<>>]
    /\ n_roms = 1
    /\ replay = TRUE
    /\ RunIdle
    /\ CacheIdle
    /\ image_exists = [r \in Roms |-> FALSE]
    /\ \E guides \in {{}, {1}}, stored \in {"none", "no_count", "count"} :
          /\ guides_files = [r \in Roms |-> IF r <= n_roms THEN guides ELSE {}]
          /\ games = [r \in Roms |->
                         CASE r <= n_roms /\ stored = "no_count" -> Some(StoredRecord(r))
                           [] r <= n_roms /\ stored = "count" -> Some(StoredRecordWithGuides(r))
                           [] OTHER -> None]
    /\ games_txt = <<>>
    /\ crawled = <<>>

GuidesNext ==
    \/ \E n_guides \in 1..MaxGuideScrapers, skip_cache \in BOOLEAN :
          StartScrape(0, n_guides, skip_cache)
    \/ NextRom
    \/ MetadataBegin
    \/ GuidesBegin
    \/ GuidesSearchCall
    \/ GuidesLoopEnd
    \/ \E outcome \in GuidesOutcome, n \in 1..MaxGuidePaths, dir_ok \in BOOLEAN :
          GuidesSearchReturn(outcome, n, dir_ok)
    \/ GuidesBackoffWake
    \/ GuideDownloadCall
    \/ \E outcome \in DownloadOutcome : GuideDownloadReturn(outcome)
    \/ GuidesFound
    \/ FoldAndPersist("ok", TRUE, TRUE)
    \/ Finish

SpecGuides == GuidesInit /\ [][GuidesNext]_vars

\* The guides scrapers whose search has returned for the current rom, and what
\* each of them answered.
GuidesAsked == {j \in 1..MaxGuideScrapers : <<"search_game_guides", j, rom, 0>> \in DOMAIN memo}
GuidesAnswer(j) == memo[<<"search_game_guides", j, rom, 0>>][1]

IsGuidesSearch(c) == c[1] = "search_game_guides"
IsGuidesCall(c) == c[1] \in {"search_game_guides", "download_guide"}

\* C28: when the guides track has returned after searching, the guides
\* scrapers were asked in configured order, each once; if one of them answered
\* with a non-empty list it is the last one asked (the ones before it answered
\* with an empty list or an error, none after it was asked) and the status is
\* Success whatever the downloads did; otherwise all of them were asked and the
\* status is Failed.
C28_GuidesSuccessIffFirstNonEmptyList ==
    (pc = "after_guides" /\ game_data.guides.status # "Skipped") =>
        LET asked == Cardinality(GuidesAsked)
            found == {j \in GuidesAsked : GuidesAnswer(j) = "guides"}
        IN  /\ GuidesAsked = 1..asked
            /\ asked <= config.n_guides
            /\ SelectSeq(calls, IsGuidesSearch) = [j \in 1..asked |-> <<"search_game_guides", j>>]
            /\ IF found # {}
               THEN found = {asked} /\ game_data.guides.status = "Success"
               ELSE asked = config.n_guides /\ game_data.guides.status = "Failed"

C28_Witness ==
    /\ pc = "after_guides" /\ config.n_guides = 2
    /\ GuidesAsked = {1, 2}
    /\ GuidesAnswer(1) = "no_guides" /\ GuidesAnswer(2) = "guides"
    /\ calls = <<<<"search_game_guides", 1>>, <<"search_game_guides", 2>>,
                 <<"download_guide", 2>>, <<"download_guide", 2>>>>
    /\ guides_files[1] = {}
    /\ game_data.guides.status = "Success"

\* C29: when the guides track has returned: if the guides directory held an
\* entry when scrape() was called and refresh is not forced, the status is
\* Skipped, no guides scraper was called, and the guide count is the stored one
\* if the stored record has one, else the number of entries; with refresh
\* forced or a missing or empty directory the guides scrapers were searched,
\* from the first one.
C29_GuidesSkippedOnExistingDirectory ==
    pc = "after_guides" =>
        LET dir == before_run.guides[rom]
            existing == before_run.games[rom]
        IN  IF ~config.skip_cache /\ dir # {}
            THEN /\ game_data.guides.status = "Skipped"
                 /\ SelectSeq(calls, IsGuidesCall) = <<>>
                 /\ game_data.guides.count =
                       IF existing # None /\ existing[1].guides.count # None
                       THEN existing[1].guides.count
                       ELSE Some(Cardinality(dir))
            ELSE /\ game_data.guides.status \in {"Success", "Failed"}
                 /\ SelectSeq(calls, IsGuidesSearch) # <<>>
                 /\ Head(SelectSeq(calls, IsGuidesSearch)) = <<"search_game_guides", 1>>

C29_Witness ==
    /\ pc = "after_guides" /\ ~config.skip_cache
    /\ before_run.guides[1] = {1}
    /\ before_run.games[1] = Some(StoredRecordWithGuides(1))
    /\ game_data.guides = [status |-> "Skipped", count |-> Some(2)]
    /\ calls = <<>>

----------------------------------------------------------------------------
(* One scrape() call with metadata scrapers only *)

\* One rom without an image; the answers of the metadata scrapers are kept in memo.
MetaInit ==
    /\ MergeIdle
    /\ backoff = EmptyScrapers
    /\ waits = [n \in ScraperNames |-> <<>>]
    /\ n_roms = 1
    /\ replay = TRUE
    /\ RunIdle
    /\ CacheIdle
    /\ FreshDirectory

MetaNext ==
    \/ \E n_meta \in 1..MaxMeta : StartScrape(n_meta, 0, FALSE)
    \/ NextRom
    \/ MetadataBegin
    \/ MetaSearchCall
    \/ MetaAllFailed
    \/ \E outcome \in SearchOutcome, dir_ok \in BOOLEAN : MetaSearchReturn(outcome, dir_ok)
    \/ MetaBackoffWake
    \/ \E outcome \in DownloadOutcome : MetaDownloadReturn(outcome)
    \/ FoldAndPersist("ok", TRUE, TRUE)
    \/ Finish

SpecMeta == MetaInit /\ [][MetaNext]_vars

\* The metadata scrapers whose search has returned for the current rom, and
\* what each of them answered.
MetaAsked == {j \in 1..MaxMeta : <<"search_game", j, rom, 0>> \in DOMAIN memo}
MetaAnswer(j) == memo[<<"search_game", j, rom, 0>>][1]

\* The metadata track has returned without a result.
MetaEndedWithoutResult ==
    /\ pc = "after_metadata"
    /\ last_update.message \in {"Not found in any source", "Failed to scrape"}

\* Between two scrapers and after the loop, a scraper that answered
\* RateLimitExceeded has been waited for once, the others not at all.
OneWaitPerRateLimit ==
    (pc = "meta_loop" \/ MetaEndedWithoutResult) =>
        \A j \in MetaAsked :
            Len(waits[MetaName(j)]) = IF MetaAnswer(j) = "RateLimitExceeded" THEN 1 ELSE 0

\* What holds of the report: 'Not found in any source' is sent exactly when no
\* scraper answered with an error other than GameNotFound, whether or not one
\* of them answered with a result whose image directory could not be created.
NotFoundReportedIffNoOtherError ==
    /\ OneWaitPerRateLimit
    /\ MetaEndedWithoutResult =>
          /\ game_data.metadata.status = "Failed"
          /\ MetaAsked = 1..config.n_meta
          /\ (last_update.message = "Not found in any source") <=>
                \A j \in MetaAsked : MetaAnswer(j) \in {"GameNotFound", "found_image"}

\* C30: a scraper that answered RateLimitExceeded is waited for exactly once
\* before the next scraper is asked, a scraper that answered GameNotFound or
\* another error is not waited for; and when the track returns without a result
\* the status is Failed and 'Not found in any source' is reported exactly when
\* at least one scraper was asked and every scraper asked answered GameNotFound.
C30_NotFoundReportedIffAllNotFound ==
    /\ OneWaitPerRateLimit
    /\ MetaEndedWithoutResult =>
          /\ game_data.metadata.status = "Failed"
          /\ (last_update.message = "Not found in any source") <=>
                (MetaAsked # {} /\ \A j \in MetaAsked : MetaAnswer(j) = "GameNotFound")

----------------------------------------------------------------------------
(* A rom no metadata scraper knows, scraped again *)

IsMetaSearch(c) == c[1] = "search_game"

\* Every configured metadata scraper has answered GameNotFound for the current rom.
AllAnsweredNotFound ==
    /\ config.n_meta > 0
    /\ \A j \in 1..config.n_meta :
          /\ <<"search_game", j, rom, 0>> \in DOMAIN memo
          /\ MetaAnswer(j) = "GameNotFound"

----------------------------------------------------------------------------
(* The persistence step of a rom *)

\* The step after the tracks of the current rom: counters and the three writes.
FoldStep == AfterTracks /\ pc' # pc

IsPrefixOf(a, b) == Len(a) <= Len(b) /\ SubSeq(b, 1, Len(a)) = a

\* games.txt and crawled only grow at their end.
LogsAppendOnly == IsPrefixOf(games_txt, games_txt') /\ IsPrefixOf(crawled, crawled')

\* What the step does when its writes succeed.
FoldStepPersists ==
    /\ progress' = count_status(progress, item_status(config, game_data))
    /\ games' = [games EXCEPT ![rom] = Some(game_data)]
    /\ games_txt' = Append(games_txt, game_data.rom_name)
    /\ crawled' = Append(crawled, rom)

\* What holds of C32: a step whose writes succeed updates the counters, writes
\* the record and appends one line to each log; the logs are append-only in
\* every step; but the step publishes nothing, and at the next cancellation
\* check the last event published still carries the counters of before the rom.
PersistStepPublishesNothing ==
    /\ [][/\ (FoldStep /\ io_faults' = io_faults) => FoldStepPersists
          /\ FoldStep => last_update' = last_update
          /\ LogsAppendOnly]_vars
    /\ []((pc = "loop" /\ rom >= 1 /\ rom < n_roms) =>
             last_update.completed = progress.completed - 1)

\* C32: for every rom, after its tracks and before the next cancellation check
\* the counters are updated, its record is written, one line is appended to
\* games.txt and one to crawled, and an event carrying the updated counters is
\* published; games.txt and crawled are append-only.
C32_PersistStepThenEvent ==
    /\ [][/\ FoldStep => FoldStepPersists
          /\ LogsAppendOnly]_vars
    /\ []((pc = "loop" /\ rom >= 1 /\ rom < n_roms) =>
             last_update.completed = progress.completed)

----------------------------------------------------------------------------
(* The counters of a call *)

Counters(p) == <<p.completed, p.success_count, p.fail_count, p.skip_count>>

\* C33: in every state of a call completed = success + fail + skip,
\* completed <= total and total is the number of roms scanned; the step after
\* the tracks of a rom adds one to completed and one to exactly one counter
\* (success for Success, skip for Skipped, fail for Failed, Pending and
\* Searching), no other step of the loop changes a counter; a call that
\* returns without having been cancelled has completed = total.
C33_CountersAddUp ==
    /\ [](Running \/ pc = "done" =>
             /\ progress.completed =
                   progress.success_count + progress.fail_count + progress.skip_count
             /\ progress.completed <= progress.total
             /\ progress.total = n_roms)
    /\ [][IF FoldStep
          THEN LET status == item_status(config, game_data)
               IN  Counters(progress') =
                      <<progress.completed + 1,
                        progress.success_count + (IF status = "Success" THEN 1 ELSE 0),
                        progress.fail_count +
                           (IF status \in {"Failed", "Pending", "Searching"} THEN 1 ELSE 0),
                        progress.skip_count + (IF status = "Skipped" THEN 1 ELSE 0)>>
          ELSE Running => Counters(progress') = Counters(progress)]_vars
    /\ []((pc = "done" /\ ~cancelled) => progress.completed = progress.total)

C33_Witness ==
    /\ pc = "done" /\ ~cancelled /\ n_roms = 2
    /\ statuses[1] = "Success" /\ statuses[2] = "Failed"
    /\ Counters(progress) = <<2, 1, 1, 0>>
    /\ progress.total = 2

----------------------------------------------------------------------------
(* Searches per rom *)

Occurrences(seq, x) == Cardinality({i \in 1..Len(seq) : seq[i] = x})

\* C34: among the calls made for the current rom, search_game of a metadata
\* scraper and search_game_guides of a guides scraper occur at most once each,
\* whatever they answered; after the wait that follows a rate limit the loop
\* is at the next scraper.
C34_EachScraperSearchedOncePerRom ==
    /\ \A j \in 1..MaxMeta : Occurrences(calls, <<"search_game", j>>) <= 1
    /\ \A j \in 1..MaxGuideScrapers : Occurrences(calls, <<"search_game_guides", j>>) <= 1
    /\ pc = "meta_loop" => Occurrences(calls, <<"search_game", scraper_idx>>) = 0
    /\ pc = "guides_loop" => Occurrences(calls, <<"search_game_guides", scraper_idx>>) = 0

C34_Witness ==
    /\ pc = "after_guides"
    /\ config.n_meta = 2 /\ config.n_guides = 1
    /\ calls = <<<<"search_game", 1>>, <<"search_game", 2>>, <<"search_game_guides", 1>>>>
    /\ waits[MetaName(1)] = <<1>> /\ waits[MetaName(2)] = <<>> /\ waits[GuideName(1)] = <<1>>
    /\ rate_limited = {MetaName(1), GuideName(1)}
    /\ game_data.metadata.status = "Failed" /\ game_data.guides.status = "Failed"

-----------------------------------------------------------------------------
(* Termination of scrape(): lib.rs 65-201, backoff.rs 40-63 *)

\* The steps of a running scrape() call, with every provider call returning: the
\* loop head, the two tracks with their backoff sleeps, the fold and the writes,
\* and the final summary.
ScrapeSteps ==
    \/ NextRom
    \/ MetadataBegin
    \/ MetaSearchCall
    \/ MetaAllFailed
    \/ \E outcome \in {"found_image", "GameNotFound", "RateLimitExceeded"} :
          MetaSearchReturn(outcome, TRUE)
    \/ MetaBackoffWake
    \/ \E outcome \in {"ok", "err"} : MetaDownloadReturn(outcome)
    \/ GuidesBegin
    \/ GuidesSearchCall
    \/ GuidesLoopEnd
    \/ \E outcome \in {"guides", "no_guides", "RateLimitExceeded"} :
          GuidesSearchReturn(outcome, 1, TRUE)
    \/ GuidesBackoffWake
    \/ GuideDownloadCall
    \/ \E outcome \in {"ok", "err"} : GuideDownloadReturn(outcome)
    \/ GuidesFound
    \/ FoldAndPersist("ok", TRUE, TRUE)
    \/ Finish

\* One scrape() call over a fresh directory; the token may be cancelled at any
\* moment of the run.
TerminationNext ==
    \/ \E nm \in 0..1, ng \in 0..1 : StartScrape(nm, ng, FALSE)
    \/ Cancel
    \/ ScrapeSteps

\* The runtime keeps polling the future of scrape(): a step that can be taken
\* is taken (a provider call returns, a sleep ends).
SpecTermination ==
    SessionInit /\ [][TerminationNext]_vars /\ WF_vars(ScrapeSteps)

\* Every sleep apply_backoff() has made lasted at most max_interval seconds.
WaitsBounded ==
    \A name \in ScraperNames : \A k \in 1..Len(waits[name]) :
        waits[name][k] <= max_interval

\* A returned run that was not cancelled has folded every rom exactly once.
UncancelledRunFoldsAll ==
    (pc = "done" /\ ~cancelled) =>
        /\ rom = n_roms
        /\ progress.completed = progress.total
        /\ progress.total = n_roms
        /\ crawled = [k \in 1..n_roms |-> k]

\* Once the token is cancelled no further rom is started.
NoItemStartsAfterCancel == [][cancel_token => rom' = rom]_vars

\* C35: with every provider call returning, a started scrape() call returns; a
\* run that was not cancelled folds each of its roms exactly once; once the token
\* is cancelled the run starts no further rom, so it returns after at most the
\* rom in progress; no backoff sleep is longer than max_interval seconds.
C35_RunTerminates ==
    /\ (Running ~> pc = "done")
    /\ [](UncancelledRunFoldsAll /\ WaitsBounded)
    /\ NoItemStartsAfterCancel

\* A run over two roms was cancelled inside its first rom, slept in a backoff,
\* finished that rom and returned without starting the second.
C35_Witness ==
    /\ pc = "done"
    /\ cancelled
    /\ cancel_at = "item"
    /\ n_roms = 2
    /\ rom = 1
    /\ progress.completed = 1
    /\ \E name \in ScraperNames : Len(waits[name]) > 0

----------------------------------------------------------------------------
(* server/api/scrape.rs: stop_scraping against start_scraping and its task *)

\* The steps of a start request after its admission and of its task, the run
\* returning with one of the given outcomes.
RunSteps(i, outcomes) ==
    \/ UpdateRomsPath(i, FALSE)
    \/ StoreCancelToken(i)
    \/ ResetScrapingState(i)
    \/ SpawnTask(i)
    \/ \E outcome \in outcomes : RunScrapingReturns(i, outcome)
    \/ TaskClearsFlag(i)
    \/ TaskClearsToken(i)
    \/ TaskEnds(i)

\* A server over a directory nothing was scraped in.
ApiInit == ServerInit /\ crawled = <<>>

\* Start and stop requests under every interleaving of their handlers with the
\* tasks and the runs.
StopNext ==
    \/ \E i \in Requests :
          \/ StartRequest(i)
          \/ RunSteps(i, {"complete", "cancelled", "Err"})
          \/ PublishEvent(i)
    \/ \E s \in StopRequests : StopRequest(s) \/ StopCancels(s)

SpecStop == ApiInit /\ [][StopNext]_vars

\* stop request s is answered 'Scraping cancelled' in this step.
StopAccepted(s) == stop[s] = "checked" /\ stop'[s] = "answered"

\* What holds of an accepted stop request: the token stored at that moment, if
\* any, is cancelled, and a run whose token is cancelled starts no further rom.
StoredTokenCancelled ==
    /\ [][\A s \in StopRequests :
            (StopAccepted(s) /\ state_cancel_token # None) =>
                state_cancel_token[1] \in token_cancelled']_vars
    /\ [][\A i \in Requests :
            i \in token_cancelled => progress_rx'[i].sent = progress_rx[i].sent]_vars

\* A stop request that finds no run active is answered 'No scraping in
\* progress' and changes nothing.
IdleStopRejected ==
    [][\A s \in StopRequests :
          (stop[s] = "none" /\ stop'[s] # "none" /\ ~\E i \in Requests : RunActive(i)) =>
              /\ stop'[s] = "rejected"
              /\ UNCHANGED <<appVars, token_cancelled, run_result, progress_rx,
                             state_lock, state_file, reader>>]_vars

\* C37: when a stop request is answered 'Scraping cancelled' while a run is
\* active, the token of that run is cancelled, and the run starts no rom after
\* that; a stop request that finds no run active is rejected and changes
\* nothing.
C37_AcceptedStopCancelsActiveRun ==
    /\ [][\A s \in StopRequests : \A i \in Requests :
            (StopAccepted(s) /\ RunActive(i)) => i \in token_cancelled']_vars
    /\ StoredTokenCancelled
    /\ IdleStopRejected

\* A stop request came between `*scraping = true` and the storing of the token:
\* it was answered 'Scraping cancelled', no token was cancelled, and the run
\* went on to start every rom and to complete.
C37_StopAnsweredRunCompletes ==
    /\ stop[1] = "answered"
    /\ token_cancelled = {}
    /\ handler[1] = "started" /\ handler[2] = "none"
    /\ task[1] = "ended"
    /\ run_result[1] = "Ok"
    /\ progress_rx[1].sent = MaxRelayed

----------------------------------------------------------------------------
(* server/api/scrape.rs: the relay task against get_state and save_settings *)

\* The runs whose relay is followed.
RelayRuns == 1..MaxRelayRuns

\* The steps of a get_state or save_settings handler after its first.
ReaderSteps(g) ==
    \/ ReaderLocks(g)
    \/ ReaderAnswers(g)
    \/ ReaderLoads(g)
    \/ ReaderStores(g)

RelayNext ==
    \/ \E i \in RelayRuns :
          \/ StartRequest(i)
          \/ RunSteps(i, {"complete", "Err"})
          \/ PublishEvent(i)
          \/ RelayUpdate(i)
    \/ \E g \in Readers : ReaderArrives(g, "get_state") \/ ReaderSteps(g)

SpecRelay == ApiInit /\ [][RelayNext]_vars

\* The run of start request i has ended with a summary and its relay task has
\* taken every update out of the channel.
Drained(i) ==
    /\ task[i] = "ended"
    /\ run_result[i] = "Ok"
    /\ progress_rx[i].closed
    /\ progress_rx[i].queue = <<>>

\* The counters and the message of a snapshot.
SnapshotOf(state) == Update(state.progress, state.current_message)

\* The relay task takes the updates out of the channel oldest first, and its
\* steps leave the run and its task as they are.
RelayInOrder ==
    [][\A i \in RelayRuns :
          LET before == progress_rx[i].queue
              after == progress_rx'[i].queue
          IN  \/ IsPrefixOf(before, after)
              \/ /\ before # <<>> /\ after = Tail(before)
                 /\ UNCHANGED <<task, run_result, handler, scraping, token_cancelled>>
                 /\ progress_rx'[i].sent = progress_rx[i].sent]_vars

\* C36: once a run has ended and its relay task has drained the channel, the
\* counters and the message of the snapshot in memory and of state.json are
\* those of the run's final summary, whatever get_state requests came in
\* between.
C36_SnapshotEqualsFinalSummary ==
    \A i \in RelayRuns :
        Drained(i) =>
            /\ SnapshotOf(scraping_state) = Update(progress_rx[i].sent, "Scraping complete!")
            /\ state_file # None
            /\ SnapshotOf(state_file[1]) = Update(progress_rx[i].sent, "Scraping complete!")

\* The final summary was lost to a get_state request that held the guard when
\* the relay task tried the lock: the snapshot and state.json still show the
\* last 'Processing' update.
C36_SummaryLostToTryLock ==
    /\ Drained(1)
    /\ progress_rx[1].sent = 1
    /\ \A g \in Readers : reader[g].pc \in {"none", "answered"}
    /\ \A g \in Readers : g > 1 => reader[g].pc = "none"
    /\ SnapshotOf(scraping_state) = Update(0, "Processing")
    /\ state_file = Some([scraping |-> TRUE, progress |-> 0,
                           current_message |-> "Processing"])

\* The snapshot was overwritten with what a get_state request had loaded from
\* state.json before the relay task wrote the final summary.
C36_SummaryOverwrittenByLoad ==
    /\ Drained(1)
    /\ \A g \in Readers : reader[g].pc \in {"none", "answered"}
    /\ state_file # None
    /\ SnapshotOf(state_file[1]) = Update(progress_rx[1].sent, "Scraping complete!")
    /\ SnapshotOf(scraping_state) # SnapshotOf(state_file[1])

----------------------------------------------------------------------------
(* server/api/scrape.rs: all handlers and tasks together *)

ApiRuns == 1..MaxApiRuns

\* What the runtime does once a request has been taken up.
ApiSteps ==
    \/ \E i \in ApiRuns :
          RunSteps(i, {"complete", "cancelled", "Err"}) \/ RelayUpdate(i)
    \/ \E s \in StopRequests : StopCancels(s)
    \/ \E g \in Readers : ReaderSteps(g)

ApiNext ==
    \/ \E i \in ApiRuns : StartRequest(i)
    \/ \E s \in StopRequests : StopRequest(s)
    \/ \E g \in Readers, kind \in {"get_state", "save_settings"} : ReaderArrives(g, kind)
    \/ ApiSteps

SpecApi == ApiInit /\ [][ApiNext]_vars /\ WF_vars(ApiSteps)

\* The scraping flag is not set, no token is stored and the snapshot says that
\* nothing is being scraped.
AllClear ==
    /\ ~scraping
    /\ state_cancel_token = None
    /\ ~scraping_state.scraping

\* C38: every admitted start request is followed by its task having ended with
\* the scraping flag not set, no token stored and the snapshot's scraping
\* false, whether its run completed, was cancelled or failed; from then until
\* the next admission this stays so and the guard of the flag is free, so that
\* the next start request is admitted.
C38_AcceptedStartIsWoundUp ==
    /\ \A i \in ApiRuns : (handler[i] = "admitted") ~> (task[i] = "ended" /\ AllClear)
    /\ [](\A i \in ApiRuns :
            (task[i] = "ended" /\ ~\E j \in Requests : RunActive(j)) =>
                (AllClear /\ admits(scraping) /\ ~ScrapingLocked))

\* The first run failed, a stop request was accepted during the second, which
\* was cancelled, and both were wound up.
C38_Witness ==
    /\ task[1] = "ended" /\ run_result[1] = "Err"
    /\ task[2] = "ended" /\ run_result[2] = "Ok" /\ 2 \in token_cancelled
    /\ \E s \in StopRequests : stop[s] = "answered"
    /\ AllClear

\* A handler is between its first step and its answer, a task is winding up its
\* run, or a guard is held.
Pending ==
    \/ \E i \in ApiRuns :
          \/ handler[i] \in {"admitted", "path_set", "token_stored", "state_reset"}
          \/ task[i] = "returned"
    \/ \E s \in StopRequests : stop[s] = "checked"
    \/ \E g \in Readers : reader[g].pc \in {"live", "locked", "load", "loaded"}
    \/ ScrapingLocked
    \/ state_lock # None

\* C39: under every interleaving of start, stop, get_state and save_settings
\* requests with the tasks and the relay, whenever a handler has not answered
\* yet, a task is winding up or a guard is held, some step can be taken, and
\* every such handler answers, every such task ends and every guard is dropped.
C39_NoDeadlockOnSharedLocks ==
    /\ [](Pending => ENABLED ApiSteps)
    /\ Pending ~> ~Pending

\* The task of the first run holds the guard of the flag and waits for the
\* guard of the snapshot, which a get_state handler holds; a stop handler is
\* about to lock the token and a save_settings request was rejected.
C39_Witness ==
    /\ task[1] = "token_cleared"
    /\ state_lock # None
    /\ \E s \in StopRequests : stop[s] = "checked"
    /\ \E g \in Readers : reader[g].pc = "rejected"

====
